---- MODULE Spec2Model ----
(***************************************************************************)
(* NanoClaw message router and agent dispatch engine (src/src/index.ts,    *)
(* first program of the file), with the store queries of the database      *)
(* module (src/unnamed/part_003) and the two messenger adapters            *)
(* (src/src/telegram.ts, src/unnamed/part_002).                            *)
(*                                                                         *)
(* The per-chat work queue (group-queue.ts), the scheduler                 *)
(* (task-scheduler.ts), the configuration (config.ts) and the persistence  *)
(* of registrations and router state are not part of the sources; they are *)
(* modelled from sections 4.1, 4.4, 4.9 and 4.10 of the specification.     *)
(***************************************************************************)
EXTENDS Integers, Sequences, FiniteSets, TLC

(***************************************************************************)
(* Bounds of the model.                                                    *)
(***************************************************************************)
\* timestamps are 1..MaxTs; 0 stands for the empty string '' (no cursor yet)
MaxTs == 3
\* cap on the number of messages acknowledged by successful agent runs, per chat
MaxPresented == 4
\* cap on the number of crash/restart cycles
MaxCrashes == 1
\* cap on the number of scheduled-task dispatches
MaxTaskRuns == 1
\* cap on the number of IPC files present at a time
MaxIpcFiles == 2
\* cap on the number of scheduled tasks ever created
MaxTasks == 2
\* cap on the number of STATUS lines an agent run emits
MaxStatusLines == 2

(***************************************************************************)
(* Strings that the code inspects character by character (folder names,    *)
(* chat names) are sequences of one-character strings.                     *)
(***************************************************************************)
Lower == {"a","b","c","d","e","f","g","h","i","j","k","l","m",
          "n","o","p","q","r","s","t","u","v","w","x","y","z"}
Upper == {"A","B","C","D","E","F","G","H","I","J","K","L","M",
          "N","O","P","Q","R","S","T","U","V","W","X","Y","Z"}
Digits == {"0","1","2","3","4","5","6","7","8","9"}

\* s.replace(/[^a-z0-9-]/gi, '-') : the i flag keeps upper-case letters
Sanitize(s) ==
  [i \in 1..Len(s) |-> IF s[i] \in Lower \cup Upper \cup Digits \cup {"-"}
                         THEN s[i] ELSE "-"]

\* config.ts MAIN_GROUP_FOLDER: the reserved main-folder name
MAIN_GROUP_FOLDER == <<"m","a","i","n">>

\* a folder some other workspace may use
W1 == <<"w","1">>

\* no folder argument / empty string
NoArg == <<>>

(***************************************************************************)
(* Chats of the platform. chat_type and the stored chat name are           *)
(* properties of the chat.                                                 *)
(***************************************************************************)
Chats == {"p1", "p2", "p3", "g1"}

ChatType(c) == IF c = "g1" THEN "group" ELSE "private"

\* chats.name as written by storeChatMetadata before the listener runs
ChatName(c) ==
  CASE c = "p1" -> <<"A","l">>
    [] c = "p2" -> <<"B","o">>
    [] c = "p3" -> <<"m","a","i","n">>
    [] OTHER    -> <<"T"," ","x">>

(***************************************************************************)
(* Messages. id is the platform message id; (id, chat) is the primary key  *)
(* of the messages table. kind abstracts the content:                      *)
(*   plain  ordinary text                                                  *)
(*   trig   text matching TRIGGER_PATTERN (starts with the trigger word)   *)
(*   reg    "/register" or "/register <arg>"                               *)
(*   help   "/help",  new  "/new"                                          *)
(*   echo   text starting with "<ASSISTANT_NAME>:" (a bot echo)            *)
(***************************************************************************)
Msg(i, c, t, k, a) ==
  [id |-> i, chat |-> c, ts |-> t, kind |-> k, arg |-> a, sender |-> "u1"]

NoMsg == Msg(0, "p1", 0, "none", NoArg)

\* the content of the message a chat holds at a timestamp, router scenario
RouterKind(c, t) ==
  CASE c = "p1" /\ t = 2 -> "reg"
    [] c = "g1" /\ t = 2 -> "trig"
    [] c = "g1" /\ t = 3 -> "reg"
    [] c = "g1" /\ t = 4 -> "echo"
    [] OTHER             -> "plain"

\* platform events of the main-chat scenario: messages in the main chat p1
MainMsgs ==
  {Msg(t, "p1", t, RouterKind("p1", t), NoArg) : t \in 1..MaxTs}

\* platform events of the group scenario: messages in the group chat g1
GateMsgs ==
  {Msg(t, "g1", t, RouterKind("g1", t), NoArg) : t \in 1..MaxTs}

\* folder arguments a user may give to /register
FolderArgs == {MAIN_GROUP_FOLDER, W1}

\* the folder arguments tried in each chat of the registration scenario
RegArgs(c) ==
  CASE c = "p2" -> {NoArg, MAIN_GROUP_FOLDER}
    [] c = "p3" -> {}
    [] OTHER    -> {NoArg}

\* platform events of the registration scenario: /register in any chat
RegMsgs ==
  UNION {{Msg(1, c, 1, "reg", a) : a \in RegArgs(c)} : c \in Chats}

\* IPC records an agent can drop into <ipc>/<src>/messages or /tasks
IpcMessage(src, chatJid) ==
  [src |-> src, dir |-> "messages", type |-> "message", jid |-> chatJid,
   folder |-> NoArg, trigger |-> ""]

IpcRegisterGroup(src, jid, folder, trigger) ==
  [src |-> src, dir |-> "tasks", type |-> "register_group", jid |-> jid,
   folder |-> folder, trigger |-> trigger]

\* a .json file whose content JSON.parse rejects, and its file name
IpcUnparsable(src, dir, name) ==
  [src |-> src, dir |-> dir, type |-> "unparsable", jid |-> "",
   folder |-> NoArg, trigger |-> "", name |-> name]

\* the records of the registration scenario; the last one lacks its trigger
IpcRecords ==
  {IpcMessage(src, c) : src \in FolderArgs, c \in {"p1", "g1"}}
    \cup {IpcRegisterGroup(src, "g1", f, "@bot") : src \in FolderArgs, f \in FolderArgs}
    \cup {IpcRegisterGroup(MAIN_GROUP_FOLDER, "g1", W1, "")}

\* the folder /register gives the group chat g1 (its sanitised name)
GroupFolder == Sanitize(ChatName("g1"))

\* the workspace directories of the task scenario
TaskDirs == {MAIN_GROUP_FOLDER, GroupFolder}

\* a schedule_task record: targetJid, the groupFolder the payload claims, and
\* the schedule_value string of an 'interval' schedule (milliseconds); no
\* context_mode
IpcScheduleTask(src, targetJid, groupFolder, ms) ==
  [src |-> src, dir |-> "tasks", type |-> "schedule_task", jid |-> targetJid,
   folder |-> groupFolder, schedule_type |-> "interval", value |-> ms,
   context_mode |-> "", taskId |-> 0]

\* a schedule_task record with its schedule_type, schedule_value and
\* context_mode ("": the field is absent)
IpcSchedule(src, targetJid, scheduleType, scheduleValue, contextMode) ==
  [IpcScheduleTask(src, targetJid, NoArg, scheduleValue) EXCEPT
     !.schedule_type = scheduleType, !.context_mode = contextMode]

\* a pause_task, resume_task or cancel_task record
IpcTaskControl(src, type, taskId) ==
  [src |-> src, dir |-> "tasks", type |-> type, jid |-> "",
   folder |-> NoArg, schedule_type |-> "", value |-> <<>>,
   context_mode |-> "", taskId |-> taskId]

\* the records of the task scenario
TaskRecords ==
  {IpcScheduleTask(src, c, f, ms) :
     src \in TaskDirs, c \in Chats, f \in TaskDirs, ms \in {<<"0">>, <<"5">>}}
    \cup {IpcTaskControl(src, t, i) :
            src \in TaskDirs, t \in {"pause_task", "resume_task", "cancel_task"},
            i \in 1..MaxTasks}

\* what the watcher did with a record: done is "sent" resp. "registered"
Outcome(f, done) == [src |-> f.src, type |-> f.type, jid |-> f.jid, done |-> done]

NoOutcome == [src |-> NoArg, type |-> "none", jid |-> "", done |-> FALSE]

VARIABLES
  messengerType,       \* 'telegram' | 'feishu' (index.ts:73); whatsapp polls like telegram
  runner,              \* one execution of the agent runner (its main): position,
                       \* captured result, session id, payload blocks, exit code
  startup,             \* how far startMessenger got: the listener, the queue's
                       \* callback, messageLoopRunning, and the calls made so far
  store,               \* rows of the messages table
  lastTimestamp,       \* index.ts:59
  lastAgentTimestamp,  \* index.ts:62
  registeredGroups,    \* index.ts:61, jid -> RegisteredGroup
  saved,               \* router_state rows written by saveState
  queue,               \* GroupQueue state per chat
  procs,               \* processGroupMessages / task invocations in flight
  rtPending,           \* handleRealtimeMessage /register calls awaiting sendMessage
  ipcFiles,            \* files in <ipc>/<folder>/{messages,tasks}
  ipcOutcome,          \* history: what the watcher did with the last record
  ipcErrors,           \* names of the files in <ipc>/errors
  tasks,               \* rows of the scheduled_tasks table
  nextTaskId,          \* number of task ids generated so far
  now,                 \* the clock (Date.now())
  taskLogs,            \* rows of the task_run_logs table
  running,             \* task runs in flight: the rows the scheduler dispatched
  lastDue,             \* history: what getDueTasks returned last
  sessions,            \* index.ts:60, rows [folder, id] of the sessions table
  status,              \* status-message state of the run in progress (runAgent
                       \* locals, the adapter's records, the platform's count)
  requested,           \* history: unregistered chats in which /register was sent
  failed,              \* history: per chat, the batch of the failed agent run
                       \* whose retry has not started yet
  presented,           \* history: messages of acknowledged agent batches, in run order
  cmdHandled,          \* history: messages of batches handled as in-band commands
  crashes,             \* history: number of restarts
  taskRuns             \* history: number of scheduler dispatches

routerVars == <<messengerType, runner, startup, store, lastTimestamp, lastAgentTimestamp, saved,
                queue, procs, rtPending>>
taskVars == <<tasks, nextTaskId, now, taskLogs, running, lastDue>>
ipcVars == <<ipcFiles, ipcOutcome, ipcErrors, taskVars>>
agentVars == <<sessions, status>>
histVars == <<presented, cmdHandled, crashes, taskRuns, requested, failed>>
vars == <<routerVars, registeredGroups, ipcVars, agentVars, histVars>>


(***************************************************************************)
(* Registered workspaces.                                                  *)
(* requiresTrigger is "true", "false" or "undef" (the field is optional);  *)
(* isMainSession undefined is FALSE (the code tests === true);             *)
(* allowedUsers undefined is {}.                                           *)
(***************************************************************************)
Group(f, t, rt, main, users) ==
  [folder |-> f, trigger |-> t, requiresTrigger |-> rt,
   isMainSession |-> main, allowedUsers |-> users]

\* registerGroup: registeredGroups[jid] = group; setRegisteredGroup(jid, group)
RegisterGroup(regs, jid, group) == (jid :> group) @@ regs

\* isMainGroup / isMain as computed by the dispatcher
IsMainGroup(group) ==
  group.folder = MAIN_GROUP_FOLDER \/ group.isMainSession = TRUE

\* faulty variant (sensitivity check): the lookup never finds a main session
GetExistingMainSessionNone(regs) == {}

\* the chats getExistingMainSession can return (it returns the first, if any)
GetExistingMainSession(regs) ==
  {c \in DOMAIN regs :
     regs[c].folder = MAIN_GROUP_FOLDER \/ regs[c].isMainSession = TRUE}

\* `p2p-${Date.now()}` / `chat-${Date.now()}`: the digit stands for the clock
SyntheticFolder(prefix) == prefix \o <<"-", "0">>

\* name.replace(...) if the chat has a stored name, else the synthetic name
NameOrSynthetic(name, prefix) ==
  IF name # <<>> THEN Sanitize(name) ELSE SyntheticFolder(prefix)

\* handleRegisterCommand: the registrations after the call
HandleRegisterCommand(regs, chatJid, folderName, chatType, senderId) ==
  IF chatJid \in DOMAIN regs THEN regs
  ELSE
    LET name == ChatName(chatJid)
        existingMain == GetExistingMainSession(regs)
        isMainSession == folderName = NoArg /\ chatType = "private"
                           /\ existingMain = {}
        folder ==
          IF folderName # NoArg THEN folderName
          ELSE IF chatType = "private"
            THEN IF existingMain # {}
                   THEN NameOrSynthetic(name, <<"p","2","p">>)
                   ELSE MAIN_GROUP_FOLDER
            ELSE NameOrSynthetic(name, <<"c","h","a","t">>)
    IN RegisterGroup(regs, chatJid,
         Group(Sanitize(folder), "",
               IF ~isMainSession /\ chatType # "private" THEN "true" ELSE "false",
               isMainSession,
               IF chatType = "private" /\ senderId # "" THEN {senderId} ELSE {}))

\* handleRegisterCommand: the text it returns
\*   "already"    This chat is already registered as workspace ...
\*   "main"       Main session registered! ...
\*   "workspace"  Workspace registered! ...
HandleRegisterResponse(regs, chatJid, folderName, chatType) ==
  IF chatJid \in DOMAIN regs THEN "already"
  ELSE IF folderName = NoArg /\ chatType = "private"
            /\ GetExistingMainSession(regs) = {}
    THEN "main"
  ELSE "workspace"

\* a handleRealtimeMessage call awaiting sendMessage(chat, response)
RealtimeReply(m, response) == [msg |-> m, response |-> response]

(***************************************************************************)
(* Store queries.                                                          *)
(***************************************************************************)
\* INSERT OR REPLACE INTO messages ... : the row with the same key is replaced
StoreMessage(st, m) ==
  {r \in st : ~(r.id = m.id /\ r.chat = m.chat)} \cup {m}

\* faulty variant (sensitivity check): the adapter stores every message
IngestAlways(st, regs, m) == StoreMessage(st, m)

\* the adapter's handler: storeChatMetadata always (not modelled as a row),
\* the message only if (this.)registeredGroups[chatJid] exists
Ingest(st, regs, m) ==
  IF m.chat \in DOMAIN regs THEN StoreMessage(st, m) ELSE st

\* content NOT LIKE '<botPrefix>:%'
NotBotEcho(m) == m.kind # "echo"

RECURSIVE SortByTs(_)
\* ORDER BY timestamp
SortByTs(S) ==
  IF S = {} THEN <<>>
  ELSE LET m == CHOOSE x \in S : \A y \in S : x.ts <= y.ts
       IN <<m>> \o SortByTs(S \ {m})

\* getMessagesSince(chatJid, sinceTimestamp, botPrefix)
GetMessagesSince(st, chatJid, since) ==
  SortByTs({m \in st : m.chat = chatJid /\ m.ts > since /\ NotBotEcho(m)})

Max(S, d) == IF S = {} THEN d ELSE CHOOSE x \in S : \A y \in S : y <= x

\* getNewMessages(jids, lastTimestamp, botPrefix)
GetNewMessages(st, jids, last) ==
  LET rows == {m \in st : m.ts > last /\ m.chat \in jids /\ NotBotEcho(m)}
  IN [messages |-> rows, newTimestamp |-> Max({m.ts : m \in rows} \cup {last}, last)]

Range(s) == {s[i] : i \in 1..Len(s)}

(***************************************************************************)
(* Batch builder helpers (processGroupMessages).                           *)
(***************************************************************************)
\* lowerContent === '/register' || lowerContent.startsWith('/register ')
IsRegister(m) == m.kind = "reg"

\* the first /register message of the batch (the for loop returns at it)
FirstRegister(batch) ==
  batch[CHOOSE i \in 1..Len(batch) :
          IsRegister(batch[i]) /\ \A j \in 1..(i-1) : ~IsRegister(batch[j])]

\* triggerPattern.test(m.content.trim()): the group's own trigger word if it
\* has one, else the configured TRIGGER_PATTERN
MatchesTrigger(group, m) ==
  IF group.trigger # "" THEN m.kind = "ctrig" ELSE m.kind = "trig"

HasTrigger(group, batch) ==
  \E i \in 1..Len(batch) : MatchesTrigger(group, batch[i])

\* the trigger gate applies: !isMainGroup && group.requiresTrigger !== false
GateApplies(group) == ~IsMainGroup(group) /\ group.requiresTrigger # "false"

\* executeCommand(...).handled: /help, /new, /register are the known commands
CommandHandled(m) == m.kind \in {"help", "new", "reg"}

\* faulty variant (sensitivity check): no command resets the session
ShouldResetSessionNever(m) == FALSE

\* executeCommand(...).shouldResetSession: set by handleNew only
ShouldResetSession(m) == m.kind = "new"

(***************************************************************************)
(* Per-chat work queue (specification 4.4).                                *)
(*   scheduled   the chat has a worker submitted, running or backing off   *)
(*   dirty       enqueue was called while scheduled                        *)
(*   submitted   worker tasks submitted and not yet started                *)
(*   backoff     the worker waits before re-submission                     *)
(*   pendingTask a scheduled task waits for the worker                     *)
(***************************************************************************)
MAX_RETRIES == 2

IdleQueue ==
  [scheduled |-> FALSE, dirty |-> FALSE, submitted |-> 0, retryCount |-> 0,
   backoff |-> FALSE, pendingTask |-> FALSE]

\* enqueue(chat_id): collapses when already scheduled
EnqueueMessageCheck(q, c) ==
  IF q[c].scheduled
    THEN [q EXCEPT ![c].dirty = TRUE]
    ELSE [q EXCEPT ![c].scheduled = TRUE, ![c].submitted = @ + 1]

EnqueueAll(q, S) ==
  [c \in DOMAIN q |-> IF c \in S THEN EnqueueMessageCheck(q, c)[c] ELSE q[c]]

\* worker, process returned ok: clear, or re-submit when dirty
WorkerOk(q, c) ==
  IF q[c].dirty
    THEN [q EXCEPT ![c].dirty = FALSE, ![c].retryCount = 0,
                   ![c].submitted = @ + 1]
    ELSE [q EXCEPT ![c].scheduled = FALSE, ![c].retryCount = 0]

\* worker, process returned retry: back off, or give up after the maximum
WorkerRetry(q, c) ==
  IF q[c].retryCount + 1 > MAX_RETRIES
    THEN [q EXCEPT ![c] = [IdleQueue EXCEPT !.pendingTask = q[c].pendingTask]]
    ELSE [q EXCEPT ![c].retryCount = @ + 1, ![c].backoff = TRUE]


(***************************************************************************)
(* Router state helpers.                                                   *)
(***************************************************************************)
\* faulty variant (sensitivity check): only last_timestamp is written
SaveStateTimestampOnly(lt, lat) ==
  [last_timestamp |-> lt, last_agent_timestamp |-> [c \in DOMAIN lat |-> 0]]

\* saveState(): both cursors are written to router_state
SaveState(lt, lat) == [last_timestamp |-> lt, last_agent_timestamp |-> lat]

\* faulty variant (sensitivity check): the listener starts the processing itself, past the queue's flag
RealtimeDispatchDirect(q, c) == [q EXCEPT ![c].submitted = @ + 1]

\* queue.enqueueMessageCheck(msg.chat_jid) at the end of handleRealtimeMessage
RealtimeDispatch(q, c) == EnqueueMessageCheck(q, c)

\* faulty variant (sensitivity check): the decision without the trigger gate
ProcessDecisionNoGate(regs, st, lat, c) ==
  IF c \notin DOMAIN regs THEN "ok"
  ELSE LET missed == GetMessagesSince(st, c, lat[c])
       IN IF missed = <<>> THEN "ok"
          ELSE IF \E i \in 1..Len(missed) : IsRegister(missed[i]) THEN "regsend"
          ELSE IF CommandHandled(missed[1]) THEN "cmdsend"
          ELSE "agent"

\* the decision processGroupMessages takes before its first suspension:
\*   "ok"      return true at once (no group, nothing pending, trigger gate)
\*   "regsend" a /register message is in the batch
\*   "cmdsend" the first message is an in-band command
\*   "agent"   runAgent is called
ProcessDecision(regs, st, lat, c) ==
  IF c \notin DOMAIN regs THEN "ok"
  ELSE LET group == regs[c]
           missed == GetMessagesSince(st, c, lat[c])
       IN IF missed = <<>> THEN "ok"
          ELSE IF \E i \in 1..Len(missed) : IsRegister(missed[i]) THEN "regsend"
          ELSE IF GateApplies(group) /\ ~HasTrigger(group, missed) THEN "ok"
          ELSE IF CommandHandled(missed[1]) THEN "cmdsend"
          ELSE "agent"

\* an invocation suspended at sendMessage or at runContainerAgent; sid is the
\* sessionId runAgent read when it started (0: none), seen the messages of
\* the chat that were stored when it started
Proc(c, phase, batch, m, sid, seen) ==
  [chat |-> c, phase |-> phase, batch |-> batch, msg |-> m, sessionId |-> sid,
   seen |-> seen]

(***************************************************************************)
(* Sessions: sessions[group.folder], mirrored in the sessions table. 0 is  *)
(* "no handle" (undefined, or the empty string setSession stores).        *)
(***************************************************************************)
SessionOf(ss, folder) ==
  IF \E r \in ss : r.folder = folder
    THEN (CHOOSE r \in ss : r.folder = folder).id ELSE 0

\* faulty variant (sensitivity check): the new handle is not recorded
SetSessionKeep(ss, folder, id) == ss

\* sessions[folder] = id; setSession(folder, id)
SetSession(ss, folder, id) ==
  {r \in ss : r.folder # folder} \cup {[folder |-> folder, id |-> id]}

\* delete sessions[folder]; setSession(folder, '')
ResetSession(ss, folder) == {r \in ss : r.folder # folder}

(***************************************************************************)
(* What runContainerAgent resolves to: status, result.outputType, whether  *)
(* result.userMessage is a non-empty string, newSessionId (0: none).       *)
(* outputType "null" stands for a result of null.                          *)
(***************************************************************************)
Output(st, ty, um, sid) ==
  [status |-> st, outputType |-> ty, userMessage |-> um, newSessionId |-> sid]

SessionIds == {0, 1, 2}

Outputs ==
  {Output("success", ty, um, sid) :
     ty \in {"message", "log"}, um \in BOOLEAN, sid \in SessionIds}
  \cup {Output("success", "null", FALSE, sid) : sid \in SessionIds}
  \cup {Output("error", "null", FALSE, sid) : sid \in SessionIds}

\* faulty variant (sensitivity check): a reply is sent for every 'message'
SendsReplyAnyMessage(out) == out.outputType = "message"

\* response = output.result ?? { outputType: 'log' }; the reply is sent if
\* response.outputType === 'message' && response.userMessage
SendsReply(out) == out.outputType = "message" /\ out.userMessage

(***************************************************************************)
(* Status message of the runs of one observed chat: the locals of runAgent *)
(* (statusMessageIdExists, lastStatusMessages), the adapter's records      *)
(* (statusMessageIds, statusMessageTexts), the sendOrUpdateStatusMessage   *)
(* calls in flight, and what the platform did (messages created, text      *)
(* shown).                                                                 *)
(***************************************************************************)
StatusChat == "p2"
StatusLines == {"a", "b"}

NoStatus ==
  [exists |-> FALSE, last |-> "", id |-> 0, text |-> <<>>, calls |-> {},
   created |-> 0, shown |-> <<>>, lines |-> 0]

\* the branch sendOrUpdateStatusMessage takes before it awaits the platform
StatusBranch(isNew, id) == IF isNew \/ id = 0 THEN "create" ELSE "edit"

\* const shouldUpdate = !lastStatus || message !== lastStatus.message ||
\*                      now - lastStatus.timestamp > 2000
ShouldUpdate(last, line, elapsed) == last = "" \/ line # last \/ elapsed

\* a call of sendOrUpdateStatusMessage suspended at the platform request
StatusCall(n, line, branch, text) ==
  [n |-> n, line |-> line, branch |-> branch, text |-> text, live |-> TRUE]

\* clearStatusMessage and the end of runAgent: the adapter forgets the
\* message, the locals of the run are gone
ClearStatus(st) ==
  [st EXCEPT !.exists = FALSE, !.last = "", !.id = 0, !.text = <<>>]

AgentsOf(c) == {p \in procs : p.chat = c /\ p.phase \in {"agent", "task"}}

(***************************************************************************)
(* The agent runner (container side): main() reads the request from stdin, *)
(* iterates over the messages of query() and writes the payload block.     *)
(***************************************************************************)
MaxRunnerMsgs == 3

\* what stdin may hold: no JSON, the JSON text null, a request object
RunnerStdin == {"garbage", "null", "request"}

\* /workspace/global/CLAUDE.md: absent, a readable file, or an entry that
\* exists and cannot be read (a directory, no permission)
GlobalMd == {"absent", "file", "unreadable"}

\* the messages query() may yield, by what main() distinguishes
QueryMessages ==
  {"init", "assistant", "structured-message", "structured-empty",
   "structured-log", "text", "no-text", "error-result"}

RunnerIdle ==
  [pc |-> "idle", isMain |-> FALSE, globalClaudeMd |-> "undefined",
   result |-> "null", newSessionId |-> "none", n |-> 0, out |-> <<>>,
   exit |-> -1]

\* writeOutput: one block between the two marker lines
WriteOutput(r, output) == [r EXCEPT !.out = Append(@, output)]

ContainerOutput(st, result, sid) ==
  [status |-> st, result |-> result, newSessionId |-> sid]

\* process.exit(code), or the end of the process after main() returned or
\* rejected
Exit(r, code) == [r EXCEPT !.pc = "exited", !.exit = code]

\* main() up to the start of query(): the first try block, then the
\* statements between the two try blocks
RunnerStart(r, stdin, isMain, md) ==
  IF stdin = "garbage"                 \* JSON.parse throws
       \/ stdin = "null"               \* input.groupFolder throws on null
    THEN Exit(WriteOutput(r, ContainerOutput("error", "null", "none")), 1)
  ELSE IF ~isMain /\ md = "unreadable" \* fs.readFileSync throws outside try:
    THEN Exit(r, 1)                    \* main() rejects, nothing is written
  ELSE [r EXCEPT !.pc = "query", !.isMain = isMain,
                 !.globalClaudeMd = IF ~isMain /\ md = "file" THEN "text"
                                    ELSE "undefined"]

\* the body of the for-await loop for one message
RunnerOnMessage(r, msg) ==
  CASE msg = "init" -> [r EXCEPT !.newSessionId = "s1", !.n = @ + 1]
    [] msg = "structured-message" -> [r EXCEPT !.result = "message", !.n = @ + 1]
    [] msg \in {"structured-empty", "structured-log"} ->
         [r EXCEPT !.result = "log", !.n = @ + 1]
    [] msg = "text" -> [r EXCEPT !.result = "message", !.n = @ + 1]
    [] OTHER -> [r EXCEPT !.n = @ + 1]

\* the iterator is exhausted: the end of the second try block
RunnerCompleted(r) ==
  Exit(WriteOutput(r, ContainerOutput("success",
                                      IF r.result = "null" THEN "log"
                                      ELSE r.result,
                                      r.newSessionId)), 0)

\* query() throws: the catch block
RunnerCaught(r) ==
  IF r.result # "null"
    THEN Exit(WriteOutput(r, ContainerOutput("success", r.result,
                                             r.newSessionId)), 0)
    ELSE Exit(WriteOutput(r, ContainerOutput("error", "null",
                                             r.newSessionId)), 1)

RunnerFrame ==
  UNCHANGED <<messengerType, startup, store, lastTimestamp, lastAgentTimestamp,
              saved, queue, procs, rtPending, registeredGroups, ipcVars,
              agentVars, histVars>>

RunnerMain(stdin, isMain, md) ==
  /\ runner.pc = "idle"
  /\ runner' = RunnerStart(runner, stdin, isMain, md)
  /\ RunnerFrame

RunnerMessage(msg) ==
  /\ runner.pc = "query"
  /\ runner.n < MaxRunnerMsgs
  /\ runner' = RunnerOnMessage(runner, msg)
  /\ RunnerFrame

RunnerQueryEnds ==
  /\ runner.pc = "query"
  /\ runner' = RunnerCompleted(runner)
  /\ RunnerFrame

RunnerQueryThrows ==
  /\ runner.pc = "query"
  /\ runner' = RunnerCaught(runner)
  /\ RunnerFrame

\* the container is started again for the next request
RunnerAgain ==
  /\ runner.pc = "exited"
  /\ runner' = RunnerIdle
  /\ RunnerFrame

(***************************************************************************)
(* Startup (main, startMessenger, connectWhatsApp's 'open' handler). The   *)
(* calls after the last await run to completion: no platform event or      *)
(* timer is served between them.                                           *)
(***************************************************************************)
\* recoverPendingMessages over the loaded state
RecoverPendingMessages(q, regs, st, lat) ==
  EnqueueAll(q, {c \in DOMAIN regs : GetMessagesSince(st, c, lat[c]) # <<>>})

\* the module state once the messenger is connected and its commands are
\* registered: no listener, no queue callback, messageLoopRunning = false
NotStarted ==
  [pc |-> "connected", listener |-> FALSE, fn |-> FALSE, loop |-> FALSE,
   order |-> <<>>]

\* faulty variant (sensitivity check): the recovery scan before the callback
StartupStepsRecoveryFirst(mt) ==
  <<"listener", "scheduler", "ipc", "recovery", "callback", "tail">>

\* the calls at the end of startMessenger (telegram, feishu) and of the
\* 'open' handler (whatsapp), in program order; the ingestion tail only if
\* messenger.needsPolling()
StartupSteps(mt) ==
  CASE mt = "whatsapp" -> <<"scheduler", "ipc", "callback", "recovery", "tail">>
    [] mt = "feishu"   -> <<"listener", "scheduler", "ipc", "callback", "recovery">>
    [] OTHER           -> <<"listener", "scheduler", "ipc", "callback", "recovery",
                            "tail">>

\* the record of one call: whether the queue's callback was installed when
\* it was made, and whether it enqueued a chat
StepMark(step, fn, enq) == [step |-> step, fn |-> fn, enq |-> enq]

\* one call of the sequence over c = [su: startup, q: queue, lt: lastTimestamp]
StartupStep(c, step, regs, st, lat) ==
  CASE step = "listener" ->        \* messenger.startMessageListener(...)
         [c EXCEPT !.su.listener = TRUE,
                   !.su.order = Append(@, StepMark(step, c.su.fn, FALSE))]
    [] step = "callback" ->        \* queue.setProcessMessagesFn(...)
         [c EXCEPT !.su.fn = TRUE,
                   !.su.order = Append(@, StepMark(step, c.su.fn, FALSE))]
    [] step = "recovery" ->        \* recoverPendingMessages()
         LET q2 == RecoverPendingMessages(c.q, regs, st, lat)
         IN [c EXCEPT !.q = q2,
                      !.su.order = Append(@, StepMark(step, c.su.fn, q2 # c.q))]
    [] step = "tail" ->            \* startMessageLoop() up to its first await
         IF c.su.loop
           THEN [c EXCEPT !.su.order = Append(@, StepMark(step, c.su.fn, FALSE))]
           ELSE LET r == GetNewMessages(st, DOMAIN regs, c.lt)
                    q2 == EnqueueAll(c.q, {m.chat : m \in r.messages})
                IN [c EXCEPT !.su.loop = TRUE, !.lt = r.newTimestamp, !.q = q2,
                             !.su.order =
                               Append(@, StepMark(step, c.su.fn, q2 # c.q))]
    [] OTHER ->                    \* startSchedulerLoop(...), startIpcWatcher()
         [c EXCEPT !.su.order = Append(@, StepMark(step, c.su.fn, FALSE))]

RECURSIVE RunStartup(_, _, _, _, _)
\* the calls in order
RunStartup(steps, c, regs, st, lat) ==
  IF steps = <<>> THEN c
  ELSE RunStartup(Tail(steps), StartupStep(c, Head(steps), regs, st, lat),
                  regs, st, lat)

\* the startup state of a process that started on an empty store
Started(mt) ==
  [RunStartup(StartupSteps(mt),
              [su |-> NotStarted, q |-> [c \in Chats |-> IdleQueue], lt |-> 0],
              <<>>, {}, [c \in Chats |-> 0]).su EXCEPT !.pc = "running"]

(***************************************************************************)
(* Initial state of the router scenario: the state after main() has loaded *)
(* a store in which p1 registered first (the main session) and the group   *)
(* g1 registered after it, both through /register; no message stored yet.  *)
(***************************************************************************)
InitRegistered ==
  LET r1 == HandleRegisterCommand(<<>>, "p1", NoArg, "private", "u1")
  IN HandleRegisterCommand(r1, "g1", NoArg, "group", "u1")

\* everything but the store and the startup state
InitMemory ==
  /\ runner = RunnerIdle
  /\ lastTimestamp = 0
  /\ lastAgentTimestamp = [c \in Chats |-> 0]
  /\ saved = SaveState(0, [c \in Chats |-> 0])
  /\ queue = [c \in Chats |-> IdleQueue]
  /\ procs = {}
  /\ rtPending = {}
  /\ ipcFiles = {}
  /\ ipcOutcome = NoOutcome
  /\ ipcErrors = {}
  /\ tasks = {}
  /\ nextTaskId = 0
  /\ now = 0
  /\ taskLogs = {}
  /\ running = {}
  /\ lastDue = <<>>
  /\ sessions = {}
  /\ status = NoStatus
  /\ requested = {}
  /\ failed = [c \in Chats |-> <<>>]
  /\ presented = [c \in Chats |-> <<>>]
  /\ cmdHandled = [c \in Chats |-> {}]
  /\ crashes = 0
  /\ taskRuns = 0

InitCommon ==
  /\ store = {}
  /\ startup = Started(messengerType)
  /\ InitMemory

Init ==
  /\ messengerType \in {"telegram", "feishu"}
  /\ registeredGroups = InitRegistered
  /\ InitCommon

(***************************************************************************)
(* Ingestion.                                                              *)
(***************************************************************************)
\* handleRealtimeMessage up to its first suspension (await sendMessage)
HandleRealtimeMessage(m) ==
  IF IsRegister(m)
    THEN /\ registeredGroups' =
              HandleRegisterCommand(registeredGroups, m.chat, m.arg,
                                    ChatType(m.chat), m.sender)
         /\ rtPending' = rtPending \cup
              {RealtimeReply(m, HandleRegisterResponse(registeredGroups, m.chat,
                                                       m.arg, ChatType(m.chat)))}
         /\ queue' = queue
    ELSE /\ UNCHANGED <<registeredGroups, rtPending>>
         /\ queue' =
              IF m.chat \notin DOMAIN registeredGroups
                THEN queue                                  \* welcome text
              ELSE IF /\ ChatType(m.chat) = "private"
                      /\ registeredGroups[m.chat].allowedUsers # {}
                      /\ m.sender \notin registeredGroups[m.chat].allowedUsers
                THEN queue                                  \* not authorised
              ELSE RealtimeDispatch(queue, m.chat)

\* a platform event reaches the adapter: the message is stored if the chat is
\* registered; the push adapter (feishu) then calls the listener, the polling
\* adapter (telegram) never does
PlatformEvent(m) ==
  /\ store' = Ingest(store, registeredGroups, m)
  /\ IF messengerType = "feishu" /\ startup.listener
       THEN HandleRealtimeMessage(m)
       ELSE UNCHANGED <<registeredGroups, rtPending, queue>>
  /\ requested' = IF IsRegister(m) /\ m.chat \notin DOMAIN registeredGroups
                    THEN requested \cup {m.chat} ELSE requested
  /\ UNCHANGED <<messengerType, runner, startup, lastTimestamp, lastAgentTimestamp, saved, procs,
                 ipcVars, agentVars, presented, cmdHandled, crashes, taskRuns,
                 failed>>

\* handleRealtimeMessage after sendMessage returned: mark as processed
RealtimeRegisterSent(x) ==
  /\ x \in rtPending
  /\ rtPending' = rtPending \ {x}
  /\ lastAgentTimestamp' = [lastAgentTimestamp EXCEPT ![x.msg.chat] = x.msg.ts]
  /\ saved' = SaveState(lastTimestamp, lastAgentTimestamp')
  /\ cmdHandled' = [cmdHandled EXCEPT ![x.msg.chat] = @ \cup {x.msg}]
  /\ UNCHANGED <<messengerType, runner, startup, store, lastTimestamp, registeredGroups, queue,
                 procs, ipcVars, agentVars, presented, crashes, taskRuns,
                 requested, failed>>

\* one iteration of startMessageLoop that finds new messages
MessageLoopTick ==
  /\ messengerType # "feishu"                          \* needsPolling()
  /\ startup.loop                                      \* the loop was started
  /\ LET r == GetNewMessages(store, DOMAIN registeredGroups, lastTimestamp)
     IN /\ r.messages # {}
        /\ lastTimestamp' = r.newTimestamp
        /\ saved' = SaveState(lastTimestamp', lastAgentTimestamp)
        /\ queue' = EnqueueAll(queue, {m.chat : m \in r.messages})
  /\ UNCHANGED <<messengerType, runner, startup, store, lastAgentTimestamp, registeredGroups,
                 procs, rtPending, ipcVars, agentVars, histVars>>


(***************************************************************************)
(* Worker: one invocation of processGroupMessages (or of a scheduled task) *)
(* per submitted worker task.                                              *)
(***************************************************************************)
\* the worker starts and runs processGroupMessages up to its first suspension
WorkerStart(c) ==
  /\ queue[c].submitted > 0
  /\ LET q1 == [queue EXCEPT ![c].submitted = @ - 1]
         missed == GetMessagesSince(store, c, lastAgentTimestamp[c])
         d == ProcessDecision(registeredGroups, store, lastAgentTimestamp, c)
     IN IF queue[c].pendingTask
          THEN /\ queue' = [q1 EXCEPT ![c].pendingTask = FALSE]
               /\ procs' = procs \cup {Proc(c, "task", <<>>, NoMsg, 0, {})}
               /\ UNCHANGED registeredGroups
          ELSE /\ d = "agent" => Len(presented[c]) + Len(missed) <= MaxPresented
               /\ queue' = IF d = "ok" THEN WorkerOk(q1, c) ELSE q1
               /\ procs' =
                    IF d = "ok" THEN procs
                    ELSE procs \cup
                      {Proc(c, d, missed,
                            IF d = "regsend" THEN FirstRegister(missed)
                                             ELSE missed[1],
                            IF d = "agent"
                              THEN SessionOf(sessions, registeredGroups[c].folder)
                              ELSE 0,
                            {m \in store : m.chat = c})}
               /\ registeredGroups' =
                    IF d = "regsend"
                      THEN LET m == FirstRegister(missed)
                           IN HandleRegisterCommand(registeredGroups, c, m.arg,
                                                    "undef", m.sender)
                      ELSE registeredGroups
  /\ failed' = IF queue[c].pendingTask THEN failed
                                          ELSE [failed EXCEPT ![c] = <<>>]
  /\ UNCHANGED <<messengerType, runner, startup, store, lastTimestamp, lastAgentTimestamp, saved,
                 rtPending, ipcVars, agentVars, presented, cmdHandled, crashes,
                 taskRuns, requested>>

\* the cursor a finished invocation writes
\*   /register:  lastAgentTimestamp[chatJid] = msg.timestamp
\*   otherwise:  ... = missedMessages[missedMessages.length - 1].timestamp
CursorAfter(p) ==
  IF p.phase = "regsend" THEN p.msg.ts ELSE p.batch[Len(p.batch)].ts

\* a /register or command reply was sent: the cursor moves, no agent ran
CommandReplySent(p) ==
  /\ p \in procs
  /\ p.phase \in {"regsend", "cmdsend"}
  /\ procs' = procs \ {p}
  /\ lastAgentTimestamp' = [lastAgentTimestamp EXCEPT ![p.chat] = CursorAfter(p)]
  /\ saved' = SaveState(lastTimestamp, lastAgentTimestamp')
  /\ cmdHandled' = [cmdHandled EXCEPT ![p.chat] = @ \cup Range(p.batch)]
  /\ sessions' = IF p.phase = "cmdsend" /\ ShouldResetSession(p.msg)
                   THEN ResetSession(sessions, registeredGroups[p.chat].folder)
                   ELSE sessions
  /\ queue' = WorkerOk(queue, p.chat)
  /\ UNCHANGED <<messengerType, runner, startup, store, lastTimestamp, registeredGroups,
                 rtPending, ipcVars, status, presented, crashes, taskRuns,
                 requested, failed>>

\* the status message after runAgent's epilogue: on 'error' the terminal text
\* is written with isNew = false, then clearStatusMessage; the calls still in
\* flight outlive the run
StatusAfterRun(st, out) ==
  LET b == StatusBranch(FALSE, st.id)
      e == IF out.status # "error" THEN st
           ELSE IF b = "create"
             THEN [st EXCEPT !.created = @ + 1, !.shown = <<"error">>]
             ELSE [st EXCEPT !.shown = st.text \o <<"error">>]
  IN [ClearStatus(e) EXCEPT
        !.calls = {[k EXCEPT !.live = FALSE] : k \in e.calls}]

\* runContainerAgent resolved with out: runAgent stores the new session handle
\* and clears the status message; on 'error' processGroupMessages returns
\* false, otherwise it acknowledges the batch and, if there is a reply, is
\* suspended at sendMessage
AgentCompletes(p, out) ==
  /\ p \in procs
  /\ p.phase = "agent"
  /\ sessions' = IF out.newSessionId # 0
                   THEN SetSession(sessions, registeredGroups[p.chat].folder,
                                   out.newSessionId)
                   ELSE sessions
  /\ status' = IF p.chat = StatusChat THEN StatusAfterRun(status, out)
                                      ELSE status
  /\ IF out.status = "error"
       THEN /\ procs' = procs \ {p}
            /\ queue' = WorkerRetry(queue, p.chat)
            /\ failed' = [failed EXCEPT ![p.chat] = p.batch]
            /\ UNCHANGED <<lastAgentTimestamp, saved, presented>>
       ELSE /\ lastAgentTimestamp' =
                 [lastAgentTimestamp EXCEPT ![p.chat] = CursorAfter(p)]
            /\ saved' = SaveState(lastTimestamp, lastAgentTimestamp')
            /\ presented' = [presented EXCEPT ![p.chat] = @ \o p.batch]
            /\ procs' = IF SendsReply(out)
                          THEN (procs \ {p}) \cup
                               {Proc(p.chat, "reply", p.batch, p.msg, p.sessionId,
                                     p.seen)}
                          ELSE procs \ {p}
            /\ queue' = IF SendsReply(out) THEN queue
                                           ELSE WorkerOk(queue, p.chat)
            /\ failed' = failed
  /\ UNCHANGED <<messengerType, runner, startup, store, lastTimestamp, registeredGroups,
                 rtPending, ipcVars, cmdHandled, crashes, taskRuns, requested>>

\* the process dies in processGroupMessages after saveState() and before
\* sendMessage is called: the session handle and the cursor are persisted,
\* then main() starts over
AgentCompletesCrash(p, out) ==
  /\ p \in procs
  /\ p.phase = "agent"
  /\ out.status # "error"
  /\ SendsReply(out)
  /\ crashes < MaxCrashes
  /\ crashes' = crashes + 1
  /\ sessions' = IF out.newSessionId # 0
                   THEN SetSession(sessions, registeredGroups[p.chat].folder,
                                   out.newSessionId)
                   ELSE sessions
  /\ saved' = SaveState(lastTimestamp,
                        [lastAgentTimestamp EXCEPT ![p.chat] = CursorAfter(p)])
  /\ presented' = [presented EXCEPT ![p.chat] = @ \o p.batch]
  /\ procs' = {}
  /\ rtPending' = {}
  /\ lastTimestamp' = saved'.last_timestamp
  /\ lastAgentTimestamp' = saved'.last_agent_timestamp
  /\ queue' = RecoverPendingMessages([c \in Chats |-> IdleQueue],
                                     registeredGroups, store,
                                     lastAgentTimestamp')
  /\ status' = [ClearStatus(status) EXCEPT !.calls = {}]
  /\ failed' = [c \in Chats |-> <<>>]
  /\ running' = {}
  /\ UNCHANGED <<messengerType, runner, startup, store, registeredGroups,
                 ipcFiles, ipcOutcome, ipcErrors, tasks, nextTaskId, now,
                 taskLogs, lastDue, cmdHandled, taskRuns, requested>>

\* sendMessage(chatJid, `${ASSISTANT_NAME}: ${response.userMessage}`) returned:
\* processGroupMessages returns true
ReplySent(p) ==
  /\ p \in procs
  /\ p.phase = "reply"
  /\ procs' = procs \ {p}
  /\ queue' = WorkerOk(queue, p.chat)
  /\ UNCHANGED <<messengerType, runner, startup, store, lastTimestamp, lastAgentTimestamp, saved,
                 registeredGroups, rtPending, ipcVars, agentVars, histVars>>

\* runAgent returned a response without a user message: the batch is
\* acknowledged
AgentSuccess(p) == AgentCompletes(p, Output("success", "log", FALSE, 0))

\* runAgent returned 'error': processGroupMessages returns false
AgentError(p) == AgentCompletes(p, Output("error", "null", FALSE, 0))

\* onStatusUpdate up to its await: a STATUS line of the running agent is
\* debounced and, if forwarded, sendOrUpdateStatusMessage runs up to its
\* request to the platform
StatusLine(line, elapsed) ==
  /\ \E p \in procs : p.chat = StatusChat /\ p.phase = "agent"
  /\ status.lines < MaxStatusLines
  /\ status' =
       IF ShouldUpdate(status.last, line, elapsed)
         THEN LET b == StatusBranch(~status.exists, status.id)
                  t == IF b = "create" THEN <<line>>
                                       ELSE status.text \o <<line>>
              IN [status EXCEPT
                    !.lines = @ + 1,
                    !.calls = @ \cup {StatusCall(status.lines, line, b, t)}]
         ELSE [status EXCEPT !.lines = @ + 1]
  /\ UNCHANGED <<routerVars, registeredGroups, ipcVars, sessions, histVars>>

\* the platform answered a sendOrUpdateStatusMessage call: the adapter records
\* the message, and onStatusUpdate of a run still alive sets its locals
StatusCallDone(k) ==
  /\ k \in status.calls
  /\ status' =
       [status EXCEPT
          !.calls = @ \ {k},
          !.created = IF k.branch = "create" THEN @ + 1 ELSE @,
          !.id = IF k.branch = "create" THEN status.created + 1 ELSE @,
          !.text = k.text,
          !.shown = k.text,
          !.exists = IF k.live THEN TRUE ELSE @,
          !.last = IF k.live THEN k.line ELSE @]
  /\ UNCHANGED <<routerVars, registeredGroups, ipcVars, sessions, histVars>>

\* the backoff delay of a retry elapsed: the worker is re-submitted
BackoffExpire(c) ==
  /\ queue[c].backoff
  /\ queue' = [queue EXCEPT ![c].backoff = FALSE, ![c].submitted = @ + 1]
  /\ UNCHANGED <<messengerType, runner, startup, store, lastTimestamp, lastAgentTimestamp, saved,
                 registeredGroups, procs, rtPending, ipcVars, agentVars, histVars>>

(***************************************************************************)
(* Scheduler (specification 4.9): a due task is enqueued on the chat's     *)
(* queue; its agent runs when the worker gets to it.                       *)
(***************************************************************************)
SchedulerTick(c) ==
  /\ taskRuns < MaxTaskRuns
  /\ c \in DOMAIN registeredGroups
  /\ taskRuns' = taskRuns + 1
  /\ queue' = [EnqueueMessageCheck(queue, c) EXCEPT ![c].pendingTask = TRUE]
  /\ UNCHANGED <<messengerType, runner, startup, store, lastTimestamp, lastAgentTimestamp, saved,
                 registeredGroups, procs, rtPending, ipcVars, agentVars, presented,
                 cmdHandled, crashes, requested, failed>>

\* the agent of a scheduled task returned
TaskDone(p) ==
  /\ p \in procs
  /\ p.phase = "task"
  /\ procs' = procs \ {p}
  /\ queue' = WorkerOk(queue, p.chat)
  /\ UNCHANGED <<messengerType, runner, startup, store, lastTimestamp, lastAgentTimestamp, saved,
                 registeredGroups, rtPending, ipcVars, agentVars, histVars>>

(***************************************************************************)
(* Crash and restart: everything in memory is lost; main() runs loadState  *)
(* and, once the queue's callback is installed, recoverPendingMessages.    *)
(***************************************************************************)
\* the calls after the last await of startMessenger, or of the 'open' handler
\* (which runs again on every reconnection of whatsapp)
StartMessengerTail ==
  /\ startup.pc = "connected" \/ messengerType = "whatsapp"
  /\ LET c == RunStartup(StartupSteps(messengerType),
                         [su |-> [startup EXCEPT !.order = <<>>], q |-> queue,
                          lt |-> lastTimestamp],
                         registeredGroups, store, lastAgentTimestamp)
     IN /\ startup' = [c.su EXCEPT !.pc = "running"]
        /\ queue' = c.q
        /\ lastTimestamp' = c.lt
        /\ saved' = IF c.lt # lastTimestamp
                      THEN SaveState(c.lt, lastAgentTimestamp) ELSE saved
  /\ UNCHANGED <<messengerType, runner, store, lastAgentTimestamp, procs, rtPending,
                 registeredGroups, ipcVars, agentVars, histVars>>

Restart ==
  /\ crashes < MaxCrashes
  /\ crashes' = crashes + 1
  /\ procs' = {}
  /\ rtPending' = {}
  /\ lastTimestamp' = saved.last_timestamp
  /\ lastAgentTimestamp' = saved.last_agent_timestamp
  /\ queue' = RecoverPendingMessages([c \in Chats |-> IdleQueue],
                                     registeredGroups, store,
                                     lastAgentTimestamp')
  /\ status' = [ClearStatus(status) EXCEPT !.calls = {}]
  /\ failed' = [c \in Chats |-> <<>>]
  /\ running' = {}
  /\ UNCHANGED <<messengerType, runner, startup, store, saved, registeredGroups, ipcFiles,
                 ipcOutcome, ipcErrors, tasks, nextTaskId, now, taskLogs, lastDue,
                 sessions, presented, cmdHandled, taskRuns, requested>>

(***************************************************************************)
(* IPC watcher (startIpcWatcher, processTaskIpc). The identity of a record *)
(* is the directory it was found in.                                       *)
(***************************************************************************)
\* faulty variant (sensitivity check): any directory may send to any chat
IpcMessageAuthorizedAny(regs, sourceGroup, chatJid) == TRUE

\* isMain || (targetGroup && targetGroup.folder === sourceGroup)
IpcMessageAuthorized(regs, sourceGroup, chatJid) ==
  \/ sourceGroup = MAIN_GROUP_FOLDER
  \/ chatJid \in DOMAIN regs /\ regs[chatJid].folder = sourceGroup

\* faulty variant (sensitivity check): register_group without the isMain check
ProcessRegisterGroupAny(regs, sourceGroup, data) ==
  IF data.trigger # ""
    THEN RegisterGroup(regs, data.jid,
                       Group(data.folder, data.trigger, "undef", FALSE, {}))
    ELSE regs

\* processTaskIpc, case 'register_group': the registrations after the call
ProcessRegisterGroup(regs, sourceGroup, data) ==
  IF sourceGroup # MAIN_GROUP_FOLDER THEN regs
  ELSE IF data.trigger # ""
    THEN RegisterGroup(regs, data.jid,
                       Group(data.folder, data.trigger, "undef", FALSE, {}))
    ELSE regs

\* the decimal digits in order
DigitSeq == <<"0", "1", "2", "3", "4", "5", "6", "7", "8", "9">>

IsDigit(ch) == ch \in Digits

DigitValue(ch) == (CHOOSE i \in 1..Len(DigitSeq) : DigitSeq[i] = ch) - 1

\* the longest prefix of s made of digits
RECURSIVE DigitPrefix(_)
DigitPrefix(s) ==
  IF s = <<>> \/ ~IsDigit(s[1]) THEN <<>> ELSE <<s[1]>> \o DigitPrefix(Tail(s))

\* the number a string of digits denotes
RECURSIVE DigitsValue(_)
DigitsValue(d) ==
  IF d = <<>> THEN 0
  ELSE 10 * DigitsValue(SubSeq(d, 1, Len(d) - 1)) + DigitValue(d[Len(d)])

NaN == [nan |-> TRUE, n |-> 0]

\* parseInt(s, 10): an optional sign, then the longest prefix of digits; what
\* follows the digits is ignored; NaN if there is no digit
ParseInt(s) ==
  LET signed == s # <<>> /\ s[1] \in {"-", "+"}
      d == DigitPrefix(IF signed THEN Tail(s) ELSE s)
  IN IF d = <<>> THEN NaN
     ELSE [nan |-> FALSE,
           n |-> IF signed /\ s[1] = "-" THEN 0 - DigitsValue(d) ELSE DigitsValue(d)]

\* new Date(s).getTime(): a timestamp is written "T" and digits here, every
\* other string gives NaN
DateParse(s) ==
  IF Len(s) >= 2 /\ s[1] = "T" /\ DigitPrefix(Tail(s)) = Tail(s)
    THEN [nan |-> FALSE, n |-> DigitsValue(Tail(s))]
    ELSE NaN

\* CronExpressionParser.parse(s) does not throw: a well-formed expression is
\* written "*" here
CronParses(s) == s = <<"*">>

\* nextRun as processTaskIpc computes it: the next tick of the cron
\* expression, now + ms, the given instant, or null for another schedule_type;
\* "invalid" where the case breaks off with a warning
NextRunOf(scheduleType, scheduleValue) ==
  IF scheduleType = "cron"
    THEN IF CronParses(scheduleValue)
           THEN [at |-> "cron", n |-> 0] ELSE [at |-> "invalid", n |-> 0]
  ELSE IF scheduleType = "interval"
    THEN LET ms == ParseInt(scheduleValue)
         IN IF ms.nan \/ ms.n <= 0 THEN [at |-> "invalid", n |-> 0]
            ELSE [at |-> "now+", n |-> ms.n]
  ELSE IF scheduleType = "once"
    THEN LET scheduled == DateParse(scheduleValue)
         IN IF scheduled.nan THEN [at |-> "invalid", n |-> 0]
            ELSE [at |-> "instant", n |-> scheduled.n]
  ELSE [at |-> "null", n |-> 0]

\* contextMode: 'group' or 'isolated' as given, else 'isolated'
ContextModeOf(data) ==
  IF data.context_mode \in {"group", "isolated"} THEN data.context_mode
                                                 ELSE "isolated"

\* a row of scheduled_tasks as createTask inserts it
Task(id, groupFolder, chatJid, data) ==
  [id |-> id, group_folder |-> groupFolder, chat_jid |-> chatJid,
   schedule_type |-> data.schedule_type, schedule_value |-> data.value,
   context_mode |-> ContextModeOf(data),
   next_run |-> NextRunOf(data.schedule_type, data.value), status |-> "active",
   created_at |-> now]

\* faulty variant (sensitivity check): the folder is taken from the payload
\* and the source directory is not compared
ScheduleTaskUnchecked(tsk, id, regs, sourceGroup, data) ==
  IF \/ data.jid \notin DOMAIN regs
     \/ NextRunOf(data.schedule_type, data.value).at = "invalid" THEN tsk
  ELSE tsk \cup {Task(id, data.folder, data.jid, data)}

\* processTaskIpc, case 'schedule_task': the task rows after the call; id is
\* the fresh task id
ScheduleTask(tsk, id, regs, sourceGroup, data) ==
  IF data.value = <<>> \/ data.schedule_type = "" THEN tsk
  ELSE IF data.jid \notin DOMAIN regs THEN tsk
  ELSE LET targetFolder == regs[data.jid].folder
       IN IF sourceGroup # MAIN_GROUP_FOLDER /\ targetFolder # sourceGroup THEN tsk
          ELSE IF NextRunOf(data.schedule_type, data.value).at = "invalid" THEN tsk
          ELSE tsk \cup {Task(id, targetFolder, data.jid, data)}

\* getTaskById
GetTaskById(tsk, id) == {t \in tsk : t.id = id}

\* faulty variant (sensitivity check): any directory may control any task
TaskControlAllowedAny(tsk, sourceGroup, id) == GetTaskById(tsk, id) # {}

\* task && (isMain || task.group_folder === sourceGroup)
TaskControlAllowed(tsk, sourceGroup, id) ==
  \E t \in GetTaskById(tsk, id) :
    sourceGroup = MAIN_GROUP_FOLDER \/ t.group_folder = sourceGroup

\* updateTask(id, {status})
UpdateTaskStatus(tsk, id, newStatus) ==
  {IF t.id = id THEN [t EXCEPT !.status = newStatus] ELSE t : t \in tsk}

\* deleteTask(id), second statement: DELETE FROM scheduled_tasks
DeleteTask(tsk, id) == {t \in tsk : t.id # id}

\* deleteTask(id), first statement: DELETE FROM task_run_logs
DeleteTaskLogs(logs, id) == {l \in logs : l.task_id # id}

\* processTaskIpc, cases 'pause_task', 'resume_task', 'cancel_task'
ControlTask(tsk, sourceGroup, data) ==
  IF ~TaskControlAllowed(tsk, sourceGroup, data.taskId) THEN tsk
  ELSE IF data.type = "pause_task" THEN UpdateTaskStatus(tsk, data.taskId, "paused")
  ELSE IF data.type = "resume_task" THEN UpdateTaskStatus(tsk, data.taskId, "active")
  ELSE DeleteTask(tsk, data.taskId)

\* processTaskIpc on the task rows
ProcessTaskIpc(tsk, id, regs, sourceGroup, data) ==
  IF data.type = "schedule_task" THEN ScheduleTask(tsk, id, regs, sourceGroup, data)
  ELSE IF data.type \in {"pause_task", "resume_task", "cancel_task"}
    THEN ControlTask(tsk, sourceGroup, data)
  ELSE tsk

(***************************************************************************)
(* Scheduler (specification 4.9) over the task table: a poll fetches the   *)
(* due tasks and dispatches a run of each; when a run ends the next fire   *)
(* time is computed (cron: next tick, interval: now + ms, once: null), the *)
(* run is logged and updateTaskAfterRun is called.                         *)
(***************************************************************************)
MaxNow == 2

\* the next tick of the cron expression "*" after the instant t
CronNext(t) == t + 1

\* the instant a row's next_run column denotes
NextRunTime(r) ==
  CASE r.next_run.at = "now+" -> r.created_at + r.next_run.n
    [] r.next_run.at = "cron" -> CronNext(r.created_at)
    [] OTHER                  -> r.next_run.n

\* faulty variant (sensitivity check): the status is not tested
IsDueAnyStatus(r, t) == r.next_run.at # "null" /\ NextRunTime(r) <= t

\* WHERE status = 'active' AND next_run IS NOT NULL AND next_run <= ?
IsDue(r, t) ==
  r.status = "active" /\ r.next_run.at # "null" /\ NextRunTime(r) <= t

\* getDueTasks(): the due rows ORDER BY next_run; rows with equal next_run
\* come in any order
GetDueTasks(tsk, t) ==
  LET due == {r \in tsk : IsDue(r, t)}
      n == Cardinality(due)
  IN {s \in [1..n -> due] :
        /\ \A i, j \in 1..n : i # j => s[i] # s[j]
        /\ \A i, j \in 1..n : i < j => NextRunTime(s[i]) <= NextRunTime(s[j])}

\* the next fire time computed after a run of the row r
NextRunAfter(r, t) ==
  IF r.schedule_type = "cron" THEN [at |-> "instant", n |-> CronNext(t)]
  ELSE IF r.schedule_type = "interval"
    THEN [at |-> "instant", n |-> t + ParseInt(r.schedule_value).n]
  ELSE [at |-> "null", n |-> 0]

\* faulty variant (sensitivity check): the status is set to active
UpdateTaskAfterRunActive(tsk, id, nextRun) ==
  {IF r.id = id THEN [r EXCEPT !.next_run = nextRun, !.status = "active"] ELSE r :
     r \in tsk}

\* updateTaskAfterRun(id, nextRun, lastResult): status = CASE WHEN nextRun IS
\* NULL THEN 'completed' ELSE status END
UpdateTaskAfterRun(tsk, id, nextRun) ==
  {IF r.id = id
     THEN [r EXCEPT !.next_run = nextRun,
                    !.status = IF nextRun.at = "null" THEN "completed" ELSE @]
     ELSE r : r \in tsk}

\* logTaskRun: the foreign key admits the row only while the task exists
LogTaskRun(logs, tsk, id, t) ==
  IF GetTaskById(tsk, id) # {} THEN logs \cup {[task_id |-> id, run_at |-> t]}
                               ELSE logs

ClockTick ==
  /\ now < MaxNow
  /\ now' = now + 1
  /\ UNCHANGED <<routerVars, registeredGroups, ipcFiles, ipcOutcome, ipcErrors,
                 tasks, nextTaskId, taskLogs, running, lastDue, agentVars, histVars>>

\* a scheduler tick: every due task is dispatched
SchedulerPoll ==
  /\ \E due \in GetDueTasks(tasks, now) :
       /\ lastDue' = due
       /\ running' = running \cup Range(due)
  /\ UNCHANGED <<routerVars, registeredGroups, ipcFiles, ipcOutcome, ipcErrors,
                 tasks, nextTaskId, now, taskLogs, agentVars, histVars>>

\* the run of the dispatched row r ends
TaskRunDone(r) ==
  /\ r \in running
  /\ running' = running \ {r}
  /\ taskLogs' = LogTaskRun(taskLogs, tasks, r.id, now)
  /\ tasks' = UpdateTaskAfterRun(tasks, r.id, NextRunAfter(r, now))
  /\ UNCHANGED <<routerVars, registeredGroups, ipcFiles, ipcOutcome, ipcErrors,
                 nextTaskId, now, lastDue, agentVars, histVars>>

\* the process dies inside deleteTask, between its two statements, while the
\* watcher handles an authorised cancel_task record: the run logs are deleted,
\* the task row and the file stay, and main() starts again
DeleteTaskCrash(f) ==
  /\ f \in ipcFiles
  /\ f.type = "cancel_task"
  /\ TaskControlAllowed(tasks, f.src, f.taskId)
  /\ crashes < MaxCrashes
  /\ crashes' = crashes + 1
  /\ taskLogs' = DeleteTaskLogs(taskLogs, f.taskId)
  /\ running' = {}
  /\ procs' = {}
  /\ rtPending' = {}
  /\ lastTimestamp' = saved.last_timestamp
  /\ lastAgentTimestamp' = saved.last_agent_timestamp
  /\ queue' = RecoverPendingMessages([c \in Chats |-> IdleQueue],
                                     registeredGroups, store,
                                     lastAgentTimestamp')
  /\ status' = [ClearStatus(status) EXCEPT !.calls = {}]
  /\ failed' = [c \in Chats |-> <<>>]
  /\ UNCHANGED <<messengerType, runner, startup, store, saved, registeredGroups, ipcFiles,
                 ipcOutcome, ipcErrors, tasks, nextTaskId, now, lastDue,
                 sessions, presented, cmdHandled, taskRuns, requested>>

\* an agent running in the workspace folder f.src writes a record; the
\* directory <ipc>/<folder> exists for the folders of registered workspaces
AgentWritesIpc(f) ==
  /\ Cardinality(ipcFiles) < MaxIpcFiles
  /\ \E c \in DOMAIN registeredGroups : registeredGroups[c].folder = f.src
  /\ f.type = "schedule_task" =>
       nextTaskId + Cardinality({g \in ipcFiles : g.type = "schedule_task"}) < MaxTasks
  /\ ipcFiles' = ipcFiles \cup {f}
  /\ UNCHANGED <<routerVars, registeredGroups, ipcOutcome, ipcErrors, taskVars,
                 agentVars, histVars>>

\* JSON.parse(fs.readFileSync(filePath)) throws
IpcThrows(f) == f.type = "unparsable"

\* path.join(errorDir, `${sourceGroup}-${file}`), relative to the errors directory
ErrorPath(sourceGroup, file) == sourceGroup \o <<"-">> \o file

\* faulty variant (sensitivity check): the catch block only logs
QuarantineNever(errs, f) == errs

\* the catch block of a file: renameSync into the errors directory
Quarantine(errs, f) ==
  IF IpcThrows(f) THEN errs \cup {ErrorPath(f.src, f.name)} ELSE errs

\* the watcher handles a file of a messages directory and unlinks it, or
\* moves it to the errors directory
ProcessIpcMessage(f) ==
  /\ f \in ipcFiles
  /\ f.dir = "messages"
  /\ ipcFiles' = ipcFiles \ {f}
  /\ ipcErrors' = Quarantine(ipcErrors, f)
  /\ ipcOutcome' =
       Outcome(f, /\ ~IpcThrows(f)
                  /\ IpcMessageAuthorized(registeredGroups, f.src, f.jid))
  /\ UNCHANGED <<routerVars, registeredGroups, taskVars, agentVars, histVars>>

\* the watcher handles a file of a tasks directory and unlinks it, or moves
\* it to the errors directory
ProcessIpcTask(f) ==
  /\ f \in ipcFiles
  /\ f.dir = "tasks"
  /\ ipcFiles' = ipcFiles \ {f}
  /\ ipcErrors' = Quarantine(ipcErrors, f)
  /\ registeredGroups' =
       IF f.type = "register_group"
         THEN ProcessRegisterGroup(registeredGroups, f.src, f)
         ELSE registeredGroups
  /\ nextTaskId' = IF f.type = "schedule_task" THEN nextTaskId + 1 ELSE nextTaskId
  /\ tasks' = ProcessTaskIpc(tasks, nextTaskId', registeredGroups, f.src, f)
  /\ taskLogs' = IF f.type = "cancel_task"
                      /\ TaskControlAllowed(tasks, f.src, f.taskId)
                   THEN DeleteTaskLogs(taskLogs, f.taskId)
                   ELSE taskLogs
  /\ UNCHANGED <<now, running, lastDue>>
  /\ ipcOutcome' = Outcome(f, registeredGroups' # registeredGroups \/ tasks' # tasks)
  /\ UNCHANGED <<routerVars, agentVars, histVars>>

\* the router's steps over the platform events U
Router(U) ==
  \/ \E m \in U : PlatformEvent(m)
  \/ \E x \in rtPending : RealtimeRegisterSent(x)
  \/ MessageLoopTick
  \/ \E c \in Chats : WorkerStart(c)
  \/ \E p \in procs : CommandReplySent(p)
  \/ \E p \in procs : AgentSuccess(p)
  \/ \E p \in procs : AgentError(p)
  \/ \E c \in Chats : BackoffExpire(c)
  \/ \E c \in Chats : SchedulerTick(c)
  \/ \E p \in procs : TaskDone(p)
  \/ Restart

Next == Router(MainMsgs)

\* main-chat scenario
Spec == Init /\ [][Next]_vars

NextGate == Router(GateMsgs)

\* group scenario
SpecGate == Init /\ [][NextGate]_vars

\* registration scenario: no workspace is registered at the start
InitIpc ==
  /\ messengerType = "feishu"
  /\ registeredGroups = <<>>
  /\ InitCommon

\* "/register" is sent in chats that are not registered yet (its reply in a
\* registered chat is part of the main-chat and /register scenarios)
NextIpc ==
  \/ \E m \in RegMsgs : m.chat \notin DOMAIN registeredGroups /\ PlatformEvent(m)
  \/ \E x \in rtPending : RealtimeRegisterSent(x)
  \/ \E f \in IpcRecords : AgentWritesIpc(f)
  \/ \E f \in ipcFiles : ProcessIpcMessage(f)
  \/ \E f \in ipcFiles : ProcessIpcTask(f)

\* registration and IPC scenario
SpecIpc == InitIpc /\ [][NextIpc]_vars

\* task scenario: p1 is the main session, the group g1 has its own workspace
InitTask ==
  /\ messengerType = "feishu"
  /\ registeredGroups = InitRegistered
  /\ InitCommon

NextTask ==
  \/ \E f \in TaskRecords : AgentWritesIpc(f)
  \/ \E f \in ipcFiles : ProcessIpcTask(f)

\* scheduled-task IPC scenario
SpecTask == InitTask /\ [][NextTask]_vars

\* the status scenario: one message in the private chat p2, registered as a
\* normal workspace after the main chat; its batch runs once
StatusMsgs == {Msg(1, StatusChat, 1, "plain", NoArg)}

InitStatus ==
  /\ messengerType \in {"telegram", "feishu"}
  /\ registeredGroups =
       HandleRegisterCommand(InitRegistered, StatusChat, NoArg, "private", "u1")
  /\ InitCommon

NextStatus ==
  \/ \E m \in StatusMsgs : PlatformEvent(m)
  \/ MessageLoopTick
  \/ WorkerStart(StatusChat)
  \/ \E p \in procs : \E out \in {o \in Outputs : o.status = "success"} :
       AgentCompletes(p, out)
  \/ \E p \in procs : ReplySent(p)
  \/ \E line \in StatusLines, elapsed \in BOOLEAN : StatusLine(line, elapsed)
  \/ \E k \in status.calls : StatusCallDone(k)

SpecStatus == InitStatus /\ [][NextStatus]_vars

\* the agent scenario: plain messages and /new in the main chat p1, one
\* plain message in the private chat p2 (another workspace); a failed run is
\* not retried here (retries are part of the main-chat scenario)
AgentKind(t) == IF t = 2 THEN "new" ELSE "plain"

AgentMsgs ==
  {Msg(t, "p1", t, AgentKind(t), NoArg) : t \in 1..MaxTs}
  \cup {Msg(1, "p2", 1, "plain", NoArg)}

AgentChats == {m.chat : m \in AgentMsgs}

NextAgent ==
  \/ \E m \in AgentMsgs : PlatformEvent(m)
  \/ MessageLoopTick
  \/ \E c \in AgentChats : WorkerStart(c)
  \/ \E p \in procs : CommandReplySent(p)
  \/ \E p \in procs : \E out \in Outputs : AgentCompletes(p, out)
  \/ \E p \in procs : ReplySent(p)

SpecAgent == InitStatus /\ [][NextAgent]_vars

\* the sender scenario: messages in the private main chat p1, registered by
\* u1 (allowedUsers = [u1]), sent by u1 or by another user u2
SenderAt(t) == IF t % 2 = 1 THEN "u2" ELSE "u1"

MsgFrom(m, sender) == [m EXCEPT !.sender = sender]

SenderMsgs ==
  {MsgFrom(Msg(t, "p1", t, "plain", NoArg), SenderAt(t)) : t \in 1..MaxTs}

NextSender ==
  \/ \E m \in SenderMsgs : PlatformEvent(m)
  \/ MessageLoopTick
  \/ WorkerStart("p1")
  \/ \E p \in procs : AgentSuccess(p)

SpecSender == Init /\ [][NextSender]_vars

\* the /register scenario: "/register" without argument in the private chats
\* p1, p2 and p3 (whose stored chat name is "main"), starting with nothing
\* registered or with p1 (main) and g1 registered, on either messenger
RegisterChats == {"p1", "p2", "p3"}

RegisterMsgs == {Msg(1, c, 1, "reg", NoArg) : c \in RegisterChats}

InitRegister ==
  /\ messengerType \in {"telegram", "feishu"}
  /\ registeredGroups \in {<<>>, InitRegistered}
  /\ InitCommon

NextRegister ==
  \/ \E m \in RegisterMsgs : PlatformEvent(m)
  \/ \E x \in rtPending : RealtimeRegisterSent(x)
  \/ MessageLoopTick
  \/ \E c \in RegisterChats : WorkerStart(c)
  \/ \E p \in procs : CommandReplySent(p)

SpecRegister == InitRegister /\ [][NextRegister]_vars

\* the replies handleRegisterCommand can return
RegisterResponses == {"already", "main", "workspace"}

\* the /register scenario with the program's scheduling: a started sendMessage
\* returns, the message loop keeps polling, a submitted worker runs; nothing
\* is assumed of the platform's events
FairRegister ==
  /\ \A m \in RegisterMsgs : \A r \in RegisterResponses :
       WF_vars(RealtimeRegisterSent(RealtimeReply(m, r)))
  /\ WF_vars(MessageLoopTick)
  /\ \A c \in RegisterChats : WF_vars(WorkerStart(c))
  /\ WF_vars(\E p \in procs : CommandReplySent(p))

SpecRegisterLive == InitRegister /\ [][NextRegister]_vars /\ FairRegister

\* the redelivery scenario: events in the main chat p1 that carry the same
\* message id with the same or another content and timestamp
RedeliveryMsgs ==
  {Msg(i, "p1", t, k, NoArg) : i \in 1..2, t \in 1..2, k \in {"plain", "help"}}

NextRedelivery ==
  \/ \E m \in RedeliveryMsgs : PlatformEvent(m)
  \/ MessageLoopTick
  \/ WorkerStart("p1")
  \/ \E p \in procs : CommandReplySent(p)
  \/ \E p \in procs : AgentSuccess(p)

SpecRedelivery == Init /\ [][NextRedelivery]_vars

\* the content of the message at a timestamp, command scenario
CommandKind(t) ==
  CASE t = 1 -> "help"
    [] t = 3 -> "new"
    [] OTHER -> "plain"

\* the command scenario: in-band commands and plain text, no trigger word,
\* in the main chat p1 and in the group g1 that requires a trigger
CommandMsgs ==
  {Msg(t, c, t, CommandKind(t), NoArg) : c \in {"p1", "g1"}, t \in 1..MaxTs}

NextCommand ==
  \/ \E m \in CommandMsgs : PlatformEvent(m)
  \/ MessageLoopTick
  \/ \E c \in Chats : WorkerStart(c)
  \/ \E p \in procs : CommandReplySent(p)
  \/ \E p \in procs : AgentSuccess(p)

SpecCommand == Init /\ [][NextCommand]_vars

\* the content of the message at a timestamp, cursor scenario
CursorKind(t) ==
  CASE t = 1 -> "help"
    [] t = 2 -> "trig"
    [] t = 3 -> "reg"
    [] OTHER -> "plain"

\* the cursor scenario: a command, a triggering message and a /register in
\* the group g1 that requires a trigger
CursorMsgs == {Msg(t, "g1", t, CursorKind(t), NoArg) : t \in 1..MaxTs}

NextCursor == Router(CursorMsgs)

SpecCursor == Init /\ [][NextCursor]_vars

\* the file names of the watcher scenario
IpcFileNames == {<<"a">>, <<"b">>}

\* the watcher scenario: well-formed records (authorised or not, one without
\* its trigger) and unparsable files in the directories of both workspaces
WatcherRecords ==
  IpcRecords
    \cup {IpcUnparsable(src, dir, n) :
            src \in TaskDirs, dir \in {"messages", "tasks"}, n \in IpcFileNames}

NextWatcher ==
  \/ \E f \in WatcherRecords : AgentWritesIpc(f)
  \/ \E f \in ipcFiles : ProcessIpcMessage(f)
  \/ \E f \in ipcFiles : ProcessIpcTask(f)

SpecWatcher == InitTask /\ [][NextWatcher]_vars

\* the schedule_value strings of the schedule scenario
ScheduleValues ==
  {<<"5">>, <<"0">>, <<"x">>, <<"5", "x">>, <<"*">>, <<"T", "5">>}

\* the schedule scenario: the main workspace schedules tasks for the group g1
ScheduleRecords ==
  {IpcSchedule(MAIN_GROUP_FOLDER, "g1", ty, v, cm) :
     ty \in {"cron", "interval", "once"}, v \in ScheduleValues,
     cm \in {"", "group"}}

NextSchedule ==
  \/ \E f \in ScheduleRecords : AgentWritesIpc(f)
  \/ \E f \in ipcFiles : ProcessIpcTask(f)

SpecSchedule == InitTask /\ [][NextSchedule]_vars

\* the scheduler scenario: the main workspace schedules an interval, a once
\* and a cron task for the group g1 and pauses, resumes or cancels the first
\* task
SchedulerRecords ==
  {IpcSchedule(MAIN_GROUP_FOLDER, "g1", "interval", <<"1">>, ""),
   IpcSchedule(MAIN_GROUP_FOLDER, "g1", "once", <<"T", "1">>, ""),
   IpcSchedule(MAIN_GROUP_FOLDER, "g1", "cron", <<"*">>, "")}
  \cup {IpcTaskControl(MAIN_GROUP_FOLDER, t, 1) :
          t \in {"pause_task", "resume_task", "cancel_task"}}

\* one record is written at a time
NextScheduler ==
  \/ \E f \in SchedulerRecords : ipcFiles = {} /\ AgentWritesIpc(f)
  \/ \E f \in ipcFiles : ProcessIpcTask(f)
  \/ ClockTick
  \/ SchedulerPoll
  \/ \E r \in running : TaskRunDone(r)

SpecScheduler == InitTask /\ [][NextScheduler]_vars

NextCancel ==
  \/ NextScheduler
  \/ \E f \in ipcFiles : DeleteTaskCrash(f)

\* scheduler scenario with a crash inside deleteTask
SpecCancel == InitTask /\ [][NextCancel]_vars

\* platform events of the startup scenario: messages in the main chat p1
StartupMsgs == {Msg(t, "p1", t, "plain", NoArg) : t \in 1..MaxTs}

\* startup scenario: the messenger has connected; the store holds what an
\* earlier process left (any of the messages, none of them acknowledged)
InitStartup ==
  /\ messengerType \in {"whatsapp", "telegram", "feishu"}
  /\ registeredGroups = InitRegistered
  /\ store \in SUBSET StartupMsgs
  /\ startup = NotStarted
  /\ InitMemory

NextStartup ==
  \/ \E m \in StartupMsgs : PlatformEvent(m)
  \/ StartMessengerTail
  \/ MessageLoopTick

SpecStartup == InitStartup /\ [][NextStartup]_vars

\* runner scenario: one execution after another, any request, any messages
NextRunner ==
  \/ \E stdin \in RunnerStdin, isMain \in BOOLEAN, md \in GlobalMd :
       RunnerMain(stdin, isMain, md)
  \/ \E msg \in QueryMessages : RunnerMessage(msg)
  \/ RunnerQueryEnds
  \/ RunnerQueryThrows
  \/ RunnerAgain

SpecRunner == InitTask /\ [][NextRunner]_vars

\* the outputs of the reply scenario: a user message, or a log entry only
ReplyOutputs ==
  {Output("success", "message", TRUE, 0), Output("success", "log", FALSE, 0)}

\* reply scenario: plain messages in the main chat p1, runs that answer or
\* stay silent, and a crash at any point of processGroupMessages
NextReply ==
  \/ \E m \in MainMsgs : m.kind = "plain" /\ PlatformEvent(m)
  \/ MessageLoopTick
  \/ WorkerStart("p1")
  \/ \E p \in procs : \E out \in ReplyOutputs : AgentCompletes(p, out)
  \/ \E p \in procs : \E out \in ReplyOutputs : AgentCompletesCrash(p, out)
  \/ \E p \in procs : ReplySent(p)
  \/ Restart

SpecReply == Init /\ [][NextReply]_vars

\* the schedule_type strings of the schedule-type scenario: the three known
\* types and one that the dispatcher does not know
ScheduleTypes == {"cron", "interval", "once", "weekly"}

\* schedule-type scenario: the main workspace schedules tasks for the group
\* g1 with any of the types and a value that one of the types accepts
ScheduleTypeRecords ==
  {IpcSchedule(MAIN_GROUP_FOLDER, "g1", ty, v, "") :
     ty \in ScheduleTypes, v \in {<<"5">>, <<"*">>, <<"T", "5">>}}

NextScheduleType ==
  \/ \E f \in ScheduleTypeRecords : AgentWritesIpc(f)
  \/ \E f \in ipcFiles : ProcessIpcTask(f)

SpecScheduleType == InitTask /\ [][NextScheduleType]_vars

(***************************************************************************)
(* Properties.                                                             *)
(***************************************************************************)
\* the messages of chat c covered by a successful agent run or handled as an
\* in-band command
Covered(c) == Range(presented[c]) \cup cmdHandled[c]

C2_CursorsMonotone ==
  [][/\ lastTimestamp' >= lastTimestamp
     /\ \A c \in Chats : lastAgentTimestamp'[c] >= lastAgentTimestamp[c]]_vars

\* C3: the messages of the acknowledged agent batches of a chat, in run
\* order, are strictly increasing in timestamp (no repeat, no step back)
C3_PresentedIncreasing ==
  \A c \in Chats :
    \A i, j \in 1..Len(presented[c]) :
      i < j => presented[c][i].ts < presented[c][j].ts

\* C4: every stored non-echo message at or below the chat's agent cursor was
\* in a batch given to a successful agent run or handled as a command
C4_NoOmission ==
  \A m \in store :
    (NotBotEcho(m) /\ m.ts <= lastAgentTimestamp[m.chat]) => m \in Covered(m.chat)

\* C5: after a restart every stored non-echo message of a registered chat
\* that no successful run covered has its chat enqueued and is in the batch
\* the worker will build
C5_AtLeastOnce ==
  [][crashes' = crashes + 1 =>
       \A m \in store :
         (m.chat \in DOMAIN registeredGroups /\ NotBotEcho(m)
            /\ m \notin Covered(m.chat))
         => /\ queue'[m.chat].scheduled
            /\ m \in Range(GetMessagesSince(store', m.chat,
                                            lastAgentTimestamp'[m.chat]))]_vars

\* the batch the worker would build for chat c now
Pending(c) == GetMessagesSince(store, c, lastAgentTimestamp[c])

\* chat c is registered and the trigger gate applies to it
Gated(c) ==
  /\ c \in DOMAIN registeredGroups
  /\ ~IsMainGroup(registeredGroups[c])
  /\ registeredGroups[c].requiresTrigger # "false"

\* the worker of chat c starts processGroupMessages on a non-empty batch of
\* a gated chat in which no message matches the trigger
UntriggeredStart(c) ==
  /\ Gated(c)
  /\ ~queue[c].pendingTask
  /\ Pending(c) # <<>>
  /\ ~HasTrigger(registeredGroups[c], Pending(c))
  /\ WorkerStart(c)

\* C6 (as stated): an invocation on a batch of a gated chat without a trigger
\* match starts no agent and, when it returns, has left the chat's cursor
\* where it was, so the batch is still pending afterwards
C6_TriggerGateAsStated ==
  [][\A c \in Chats :
       /\ UntriggeredStart(c) =>
            /\ \A p \in procs' \ procs : p.phase # "agent"
            /\ lastAgentTimestamp' = lastAgentTimestamp
       /\ \A p \in procs :
            (/\ p.chat = c /\ p.phase # "task" /\ Gated(c)
             /\ ~HasTrigger(registeredGroups[c], p.batch)
             /\ p \notin procs' /\ crashes' = crashes)
            => /\ lastAgentTimestamp'[c] = lastAgentTimestamp[c]
               /\ Range(p.batch) \subseteq
                    Range(GetMessagesSince(store', c, lastAgentTimestamp'[c]))]_vars

\* C6 (amended): the same when, in addition, no message of the batch is a
\* /register command: no agent is started, the invocation returns success,
\* the cursor is unchanged and every message of the batch is still pending
C6_TriggerGate ==
  [][\A c \in Chats :
       (/\ UntriggeredStart(c)
        /\ \A i \in 1..Len(Pending(c)) : ~IsRegister(Pending(c)[i]))
       => /\ procs' = procs
          /\ queue' = WorkerOk([queue EXCEPT ![c].submitted = @ - 1], c)
          /\ lastAgentTimestamp' = lastAgentTimestamp
          /\ Range(Pending(c)) \subseteq
               Range(GetMessagesSince(store', c, lastAgentTimestamp'[c]))]_vars

\* C6 witness: the group's worker has run on the untriggered message and
\* returned; the message is still pending and nothing was run or handled
C6_Witness ==
  /\ Gated("g1")
  /\ messengerType = "feishu"
  /\ Pending("g1") # <<>>
  /\ \A i \in 1..Len(Pending("g1")) :
       /\ ~MatchesTrigger(registeredGroups["g1"], Pending("g1")[i])
       /\ ~IsRegister(Pending("g1")[i])
  /\ ~queue["g1"].scheduled
  /\ lastAgentTimestamp["g1"] = 0
  /\ presented["g1"] = <<>> /\ cmdHandled["g1"] = {} /\ rtPending = {}
  /\ crashes = 0

\* C7: a message record of a non-main directory is sent only if its target
\* chat is registered with that directory's folder; a record of the main
\* directory is sent whatever its target
C7_IpcAuthorised ==
  [][\A f \in ipcFiles :
       ProcessIpcMessage(f) =>
         /\ (f.src # MAIN_GROUP_FOLDER /\ ipcOutcome'.done)
              => /\ f.jid \in DOMAIN registeredGroups
                 /\ registeredGroups[f.jid].folder = f.src
         /\ f.src = MAIN_GROUP_FOLDER => ipcOutcome'.done]_vars

\* C7 witness: the watcher has just dropped a record of the directory w1
\* addressed to a chat that is registered to another workspace
C7_Witness ==
  /\ ipcOutcome.type = "message" /\ ipcOutcome.src = W1 /\ ~ipcOutcome.done
  /\ ipcOutcome.jid \in DOMAIN registeredGroups
  /\ registeredGroups[ipcOutcome.jid].folder # W1
  /\ \E c \in DOMAIN registeredGroups : registeredGroups[c].folder = W1

\* C8: at most one registered workspace has isMainSession = true
C8_OneMainSession ==
  Cardinality({c \in DOMAIN registeredGroups :
                 registeredGroups[c].isMainSession = TRUE}) <= 1

\* C8 witness: a private chat registered without argument after the main
\* session existed, and did not become a main session
C8_Witness ==
  /\ {"p1", "p2"} \subseteq DOMAIN registeredGroups
  /\ \E c \in {"p1", "p2"} : registeredGroups[c].isMainSession
  /\ \E c \in {"p1", "p2"} :
       /\ ~registeredGroups[c].isMainSession
       /\ registeredGroups[c].folder = Sanitize(ChatName(c))

\* C9: at most one registered chat has the reserved main folder
C9_OneMainFolder ==
  Cardinality({c \in DOMAIN registeredGroups :
                 registeredGroups[c].folder = MAIN_GROUP_FOLDER}) <= 1

\* C10: a register_group record of a non-main directory is removed and the
\* registrations stay as they were; an IPC record changes the registrations
\* only if it comes from the main directory
C10_RegisterGroupMainOnly ==
  [][\A f \in ipcFiles :
       ProcessIpcTask(f) =>
         /\ f \notin ipcFiles'
         /\ f.src # MAIN_GROUP_FOLDER => registeredGroups' = registeredGroups
         /\ registeredGroups' # registeredGroups => f.src = MAIN_GROUP_FOLDER]_vars

\* C10 witness: the watcher has consumed a register_group record of the
\* directory w1 and the chat it names has the registration it had
C10_Witness ==
  /\ ipcOutcome.type = "register_group" /\ ipcOutcome.src = W1
  /\ ~ipcOutcome.done
  /\ ipcFiles = {}
  /\ \E c \in DOMAIN registeredGroups : registeredGroups[c].folder = W1

\* C11: a schedule_task record creates a task only if its target chat is
\* registered and the source directory is main or is the folder registered
\* for the target; a created task carries the target chat and the folder
\* registered for it, whatever folder the payload names
C11_ScheduleAuthorised ==
  [][\A f \in ipcFiles :
       (ProcessIpcTask(f) /\ f.type = "schedule_task") =>
         /\ tasks \subseteq tasks'
         /\ tasks' # tasks =>
              /\ f.jid \in DOMAIN registeredGroups
              /\ \/ f.src = MAIN_GROUP_FOLDER
                 \/ registeredGroups[f.jid].folder = f.src
         /\ \A t \in tasks' \ tasks :
              /\ t.chat_jid = f.jid
              /\ t.group_folder = registeredGroups[f.jid].folder]_vars

\* C11 witness: the group's workspace has scheduled a task for its own chat,
\* the task has the group's folder, and its record aimed at the main chat
\* has just been dropped without creating a task
C11_Witness ==
  /\ \E t \in tasks : t.chat_jid = "g1" /\ t.group_folder = GroupFolder
  /\ ipcOutcome.type = "schedule_task" /\ ipcOutcome.src = GroupFolder
  /\ ipcOutcome.jid = "p1" /\ ~ipcOutcome.done
  /\ \A t \in tasks : t.chat_jid # "p1"

\* C12: pause_task, resume_task and cancel_task change the task rows only if
\* the task exists and the source directory is main or the task's folder;
\* then only that task changes
C12_TaskControlAuthorised ==
  [][\A f \in ipcFiles :
       (ProcessIpcTask(f) /\ f.type \in {"pause_task", "resume_task", "cancel_task"})
       => /\ tasks' # tasks =>
               \E t \in tasks :
                 /\ t.id = f.taskId
                 /\ f.src = MAIN_GROUP_FOLDER \/ t.group_folder = f.src
          /\ \A t \in tasks : t.id # f.taskId => t \in tasks'
          /\ \A t \in tasks' : t.id # f.taskId => t \in tasks]_vars

\* C12 witness: the group's workspace has just tried to pause, resume or
\* cancel a task of the main workspace, which is as it was, and a task of
\* its own is paused
C12_Witness ==
  /\ ipcOutcome.src = GroupFolder /\ ~ipcOutcome.done
  /\ ipcOutcome.type \in {"pause_task", "resume_task", "cancel_task"}
  /\ \E t \in tasks : t.group_folder = MAIN_GROUP_FOLDER /\ t.status = "active"
  /\ \E t \in tasks : t.group_folder = GroupFolder /\ t.status = "paused"

(***************************************************************************)
(* C13. For one batch at most one status message is created on the         *)
(* platform, however the STATUS-line callbacks interleave: the first       *)
(* forwarded line creates it and every later forwarded line edits it.      *)
(* As stated this does not hold: two callbacks that both start before the  *)
(* first request to the platform returned both create a message.           *)
(***************************************************************************)
C13_OneStatusMessage == status.created <= 1

(***************************************************************************)
(* C14. When the agent run of a batch returns success the chat's cursor    *)
(* becomes the timestamp of the batch's last message, and the reply is     *)
(* sent exactly when outputType is message and userMessage is non-empty;   *)
(* for a log or null result nothing is sent and the cursor still advances. *)
(***************************************************************************)
C14_SuccessAcknowledges ==
  [][\A p \in procs : \A out \in Outputs :
       (out.status = "success" /\ AgentCompletes(p, out)) =>
         /\ lastAgentTimestamp'[p.chat] = p.batch[Len(p.batch)].ts
         /\ (\E q \in procs' : q.chat = p.chat /\ q.phase = "reply")
              <=> (out.outputType = "message" /\ out.userMessage)]_vars

\* a reply is being sent for a batch of two messages, the cursor is at the
\* second
C14_Witness ==
  \E q \in procs :
    /\ q.phase = "reply"
    /\ Len(q.batch) = 2
    /\ lastAgentTimestamp[q.chat] = q.batch[2].ts

(***************************************************************************)
(* C15. When an agent run fails, processGroupMessages returns the retry    *)
(* outcome, sends no reply and leaves the chat's cursor unchanged, so that *)
(* the retried attempt is given a batch that contains every message of the *)
(* failed batch.                                                           *)
(* As stated this does not hold: the cursor is left alone by the failed    *)
(* invocation, but the real-time listener can move it past the failed      *)
(* batch before the retry starts.                                          *)
(***************************************************************************)
C15_FailureKeepsBatch ==
  [][/\ \A p \in procs : \A out \in Outputs :
          (out.status = "error" /\ AgentCompletes(p, out)) =>
            /\ lastAgentTimestamp' = lastAgentTimestamp
            /\ ~\E q \in procs' : q.chat = p.chat /\ q.phase = "reply"
            /\ queue' = WorkerRetry(queue, p.chat)
     /\ \A c \in Chats :
          (WorkerStart(c) /\ ~queue[c].pendingTask /\ failed[c] # <<>>) =>
            Range(failed[c]) \subseteq
              Range(GetMessagesSince(store, c, lastAgentTimestamp[c]))]_vars

(***************************************************************************)
(* C16. Messages of a chat stored while an agent run for it is in progress *)
(* are not part of the running batch and start no concurrent run; when the *)
(* run completes, the next batch of the chat contains exactly the messages *)
(* stored during the run, in timestamp order.                              *)
(* As stated this does not hold: a message stored during the run with a    *)
(* timestamp at or below the batch's last timestamp is in no later batch.  *)
(***************************************************************************)
C16_NextBatchIsNewMessages ==
  [][\A p \in procs : \A out \in Outputs :
       (out.status = "success" /\ AgentCompletes(p, out)) =>
         LET during == {m \in store : m.chat = p.chat} \ p.seen
             next == GetMessagesSince(store', p.chat, lastAgentTimestamp'[p.chat])
         IN /\ Range(p.batch) \cap during = {}
            /\ Cardinality(AgentsOf(p.chat)) = 1
            /\ Range(next) = during
            /\ \A i, j \in 1..Len(next) : i < j => next[i].ts <= next[j].ts]_vars

(***************************************************************************)
(* C17. In a private chat registered with allowed users, a message whose   *)
(* sender is not allowed never interacts with the agent: it does not cause *)
(* the chat to be enqueued and its content is in no prompt given to an     *)
(* agent, on the real-time path and on the polling path.                   *)
(* As stated this does not hold: only the real-time listener tests the     *)
(* sender; the message is stored, and the polling loop and the batch       *)
(* builder do not look at the sender.                                      *)
(***************************************************************************)
Restricted(c) ==
  /\ c \in DOMAIN registeredGroups
  /\ ChatType(c) = "private"
  /\ registeredGroups[c].allowedUsers # {}

C17_AllowedUsersOnly ==
  \A p \in procs :
    (p.phase = "agent" /\ Restricted(p.chat)) =>
      \A i \in 1..Len(p.batch) :
        p.batch[i].sender \in registeredGroups[p.chat].allowedUsers

(***************************************************************************)
(* C18. "/register" without a folder argument in an unregistered private   *)
(* chat, sent by u1: when no main workspace exists the chat is registered  *)
(* with is_main_session = true, the main folder, allowed_users = [u1] and  *)
(* no trigger requirement, and the main-session confirmation is the reply; *)
(* when a main workspace exists the chat becomes a normal (non-main)       *)
(* workspace with allowed_users = [u1].                                    *)
(* As stated this does not hold: with a main workspace present, a chat     *)
(* whose stored name is the main folder's name gets the main folder.       *)
(***************************************************************************)
MainWorkspaceExists(regs) == \E c \in DOMAIN regs : IsMainGroup(regs[c])

C18_RegisterPrivate ==
  [][\A m \in RegisterMsgs :
       (/\ messengerType = "feishu"
        /\ m.chat \notin DOMAIN registeredGroups
        /\ PlatformEvent(m)) =>
         LET g == registeredGroups'[m.chat]
         IN IF ~MainWorkspaceExists(registeredGroups)
              THEN /\ g = Group(MAIN_GROUP_FOLDER, "", "false", TRUE, {"u1"})
                   /\ RealtimeReply(m, "main") \in rtPending'
              ELSE /\ ~IsMainGroup(g)
                   /\ g.allowedUsers = {"u1"}
                   /\ RealtimeReply(m, "workspace") \in rtPending']_vars

(***************************************************************************)
(* C19. A "/register" message sent in a chat that is not yet registered is *)
(* eventually handled (the chat becomes registered and a confirmation is   *)
(* sent), for the push messenger and for the polling messenger.            *)
(* As stated this does not hold: the polling adapter stores messages of    *)
(* registered chats only and never calls the listener, so the message of   *)
(* an unregistered chat reaches neither the store nor the router.          *)
(***************************************************************************)
C19_RegisterEventuallyHandled ==
  \A c \in RegisterChats :
    (c \in requested) ~>
      (c \in DOMAIN registeredGroups /\ cmdHandled[c] # {})

(***************************************************************************)
(* C20. When /new has been handled for a workspace, the session handle     *)
(* stored for its folder is cleared and the handles of all other folders   *)
(* are unchanged; an agent run is started with the handle stored for its   *)
(* folder (none after /new), and a folder without a handle gets one only   *)
(* from a run of that folder that returns a new handle.                    *)
(***************************************************************************)
FolderOf(c) == registeredGroups[c].folder

C20_NewClearsSession ==
  [][/\ \A p \in procs :
          (p.phase = "cmdsend" /\ p.msg.kind = "new" /\ CommandReplySent(p)) =>
            /\ SessionOf(sessions', FolderOf(p.chat)) = 0
            /\ \A c \in DOMAIN registeredGroups :
                 FolderOf(c) # FolderOf(p.chat) =>
                   SessionOf(sessions', FolderOf(c)) = SessionOf(sessions, FolderOf(c))
     /\ \A q \in procs' \ procs :
          q.phase = "agent" => q.sessionId = SessionOf(sessions, FolderOf(q.chat))
     /\ \A c \in DOMAIN registeredGroups :
          (SessionOf(sessions, FolderOf(c)) = 0
             /\ SessionOf(sessions', FolderOf(c)) # 0) =>
            \E p \in procs : \E out \in Outputs :
              /\ out.newSessionId # 0
              /\ FolderOf(p.chat) = FolderOf(c)
              /\ AgentCompletes(p, out)]_vars

\* after a run of p1 and a handled /new, the next run of p1 has started without
\* a session handle while the workspace of p2 still has its handle
C20_Witness ==
  /\ presented["p1"] # <<>>
  /\ \E m \in cmdHandled["p1"] : m.kind = "new"
  /\ SessionOf(sessions, FolderOf("p1")) = 0
  /\ SessionOf(sessions, FolderOf("p2")) # 0
  /\ \E q \in procs :
       /\ q.chat = "p1" /\ q.phase = "agent" /\ q.sessionId = 0
       /\ \E m \in cmdHandled["p1"] : m.kind = "new" /\ m.ts < q.batch[1].ts

(***************************************************************************)
(* C21. Every message row in the store belongs to a chat that was          *)
(* registered when the message was ingested; an event from an unregistered *)
(* chat adds no message row.                                               *)
(***************************************************************************)
C21_StoredOnlyIfRegistered ==
  [][/\ \A m \in store' \ store : m.chat \in DOMAIN registeredGroups
     /\ \A m \in RegisterMsgs :
          (m.chat \notin DOMAIN registeredGroups /\ PlatformEvent(m)) =>
            store' = store]_vars

\* a message of a registered chat is stored, and an event of a chat that was
\* not registered left no row
C21_Witness ==
  /\ store # {}
  /\ \E c \in requested : \A m \in store : m.chat # c

(***************************************************************************)
(* C22. Stored messages are immutable and insertion is idempotent on       *)
(* (message id, chat id): once a row is in the store, no later event with  *)
(* the same key changes its content, sender or timestamp.                  *)
(* As stated this does not hold: the insert replaces the row.              *)
(***************************************************************************)
C22_StoredImmutable == [][store \subseteq store']_vars

(***************************************************************************)
(* C23. Command interception precedes the trigger gate: in any registered  *)
(* chat, the gated group without a triggering message included, an         *)
(* invocation whose batch starts with /help or /new dispatches the command *)
(* (its reply is then sent, no agent runs, and the cursor moves to the     *)
(* batch's last timestamp).                                                *)
(* As stated this does not hold: the trigger gate returns first.           *)
(***************************************************************************)
C23_CommandBeforeGate ==
  [][\A c \in DOMAIN registeredGroups :
       LET missed == GetMessagesSince(store, c, lastAgentTimestamp[c])
       IN (/\ WorkerStart(c)
           /\ missed # <<>>
           /\ missed[1].kind \in {"help", "new"})
          => \E p \in procs' \ procs :
               p.chat = c /\ p.phase = "cmdsend" /\ p.batch = missed]_vars

(***************************************************************************)
(* C24. lastAgentTimestamp[chat] changes only in a step that completes a   *)
(* successful agent run for that chat or that handles an in-band command   *)
(* (/help, /new, /register) for that chat; ingestion, the polling loop,    *)
(* a worker start (the trigger-gate skip included) and a failed run leave  *)
(* every cursor unchanged; every change is persisted in the same step.     *)
(***************************************************************************)
C24_CursorFrame ==
  [][/\ \A c \in Chats :
          lastAgentTimestamp'[c] # lastAgentTimestamp[c] =>
            /\ \/ \E p \in procs : \E out \in Outputs :
                    /\ p.chat = c /\ out.status = "success"
                    /\ AgentCompletes(p, out)
               \/ \E p \in procs : p.chat = c /\ CommandReplySent(p)
               \/ \E x \in rtPending : x.msg.chat = c /\ RealtimeRegisterSent(x)
            /\ saved'.last_agent_timestamp = lastAgentTimestamp'
     /\ ( \/ \E m \in CursorMsgs : PlatformEvent(m)
          \/ MessageLoopTick
          \/ \E c \in Chats : WorkerStart(c)
          \/ \E p \in procs : AgentError(p) )
        => lastAgentTimestamp' = lastAgentTimestamp]_vars

\* both a successful run and a command have moved the group's cursor
C24_Witness ==
  /\ lastAgentTimestamp["g1"] > 0
  /\ presented["g1"] # <<>>
  /\ cmdHandled["g1"] # {}

(***************************************************************************)
(* C25. Whenever a run returns a payload carrying a new session handle,    *)
(* the handle replaces the stored session of the run's workspace, whether  *)
(* the payload's status is success or error; a payload without a handle    *)
(* (a throw included) leaves the sessions unchanged; no other workspace's  *)
(* session is touched.                                                     *)
(***************************************************************************)
C25_SessionHandleRecorded ==
  [][\A p \in procs : \A out \in Outputs :
       AgentCompletes(p, out) =>
         /\ out.newSessionId # 0 =>
              SessionOf(sessions', FolderOf(p.chat)) = out.newSessionId
         /\ out.newSessionId = 0 => sessions' = sessions
         /\ \A c \in DOMAIN registeredGroups :
              FolderOf(c) # FolderOf(p.chat) =>
                SessionOf(sessions', FolderOf(c)) = SessionOf(sessions, FolderOf(c))]_vars

\* the only run of p1 so far has failed, and its handle is stored
C25_Witness ==
  /\ failed["p1"] # <<>>
  /\ presented["p1"] = <<>>
  /\ SessionOf(sessions, FolderOf("p1")) # 0

(***************************************************************************)
(* C26. Status debouncing within one run: a STATUS line causes no platform *)
(* send or edit if it is identical to the previously forwarded line, or if *)
(* it arrives within the debounce window of the previously forwarded       *)
(* update; the first STATUS line of a run is always forwarded.             *)
(* As stated this does not hold: a line is dropped only when it is both    *)
(* identical and within the window.                                        *)
(***************************************************************************)
C26_StatusDebounced ==
  [][\A line \in StatusLines : \A elapsed \in BOOLEAN :
       StatusLine(line, elapsed) =>
         /\ (status.last # "" /\ (line = status.last \/ ~elapsed)) =>
              status'.calls = status.calls
         /\ status.lines = 0 => status'.calls # status.calls]_vars

(***************************************************************************)
(* C27. When runAgent has returned for a batch, on every path and however  *)
(* the status callbacks in flight interleave with it, the messenger holds  *)
(* no status-message id and no accumulated status text for the batch.      *)
(* As stated this does not hold: a call in flight at the return records    *)
(* its message after clearStatusMessage.                                   *)
(***************************************************************************)
C27_StatusClearedAfterRun ==
  (\A p \in procs : ~(p.chat = StatusChat /\ p.phase = "agent")) =>
    (status.id = 0 /\ status.text = <<>>)

(***************************************************************************)
(* C28. Duplicate delivery is suppressed on the push path: a second        *)
(* delivery of a platform message id already delivered in the chat causes  *)
(* no reply, no enqueue and no cursor change.                              *)
(* As stated this does not hold: the listener runs again in full.          *)
(***************************************************************************)
C28_DuplicateSuppressed ==
  [][\A m \in MainMsgs :
       (/\ messengerType = "feishu"
        /\ \E r \in store : r.id = m.id /\ r.chat = m.chat
        /\ PlatformEvent(m))
       => /\ queue' = queue
          /\ rtPending' = rtPending
          /\ lastAgentTimestamp' = lastAgentTimestamp]_vars

(***************************************************************************)
(* C29. Every .json file of a messages or tasks directory is consumed in   *)
(* the step that reads it: a file handled without an exception (an         *)
(* unauthorised record included) is deleted and nothing is added to the    *)
(* errors directory; a file whose handling throws is moved to              *)
(* errors/<source workspace>-<file name>; in both cases the file is gone   *)
(* from its directory, the other files stay, and only a file that was      *)
(* handled without an exception has an effect.                             *)
(***************************************************************************)
C29_IpcFileConsumed ==
  [][\A f \in ipcFiles :
       (ProcessIpcMessage(f) \/ ProcessIpcTask(f)) =>
         /\ f \notin ipcFiles'
         /\ ipcFiles' = ipcFiles \ {f}
         /\ IF f.type = "unparsable"
              THEN /\ ipcErrors' = ipcErrors \cup {f.src \o <<"-">> \o f.name}
                   /\ ~ipcOutcome'.done
                   /\ registeredGroups' = registeredGroups
                   /\ tasks' = tasks
              ELSE ipcErrors' = ipcErrors]_vars

\* an unparsable file has just been quarantined while another file waits
\* in its directory
C29_Witness ==
  /\ ipcErrors # {}
  /\ ipcOutcome.type = "unparsable"
  /\ ipcFiles # {}

(***************************************************************************)
(* C30. A schedule_task record whose schedule_value is invalid for its     *)
(* kind (unparsable cron expression, non-numeric or non-positive interval, *)
(* unparsable once timestamp) leaves the task table unchanged; a valid     *)
(* record creates exactly one active task, with next_run the next cron     *)
(* tick, now + ms or the given instant, and context_mode isolated unless   *)
(* the record says group.                                                  *)
(* As stated this does not hold: an interval that only starts with digits  *)
(* is accepted.                                                            *)
(***************************************************************************)
C30_ScheduleValidated ==
  [][\A f \in ipcFiles :
       (ProcessIpcTask(f) /\ f.type = "schedule_task") =>
         LET numeric == f.value # <<>> /\ \A i \in 1..Len(f.value) : IsDigit(f.value[i])
             valid ==
               CASE f.schedule_type = "cron"     -> CronParses(f.value)
                 [] f.schedule_type = "interval" -> numeric /\ DigitsValue(f.value) > 0
                 [] f.schedule_type = "once"     -> ~DateParse(f.value).nan
         IN IF ~valid THEN tasks' = tasks
            ELSE \E t \in tasks' \ tasks :
                   /\ tasks' = tasks \cup {t}
                   /\ t.status = "active"
                   /\ t.next_run =
                        CASE f.schedule_type = "cron" -> [at |-> "cron", n |-> 0]
                          [] f.schedule_type = "interval" ->
                               [at |-> "now+", n |-> DigitsValue(f.value)]
                          [] f.schedule_type = "once" ->
                               [at |-> "instant", n |-> DateParse(f.value).n]
                   /\ t.context_mode =
                        IF f.context_mode = "group" THEN "group" ELSE "isolated"]_vars

(***************************************************************************)
(* C31. getDueTasks returns exactly the tasks with status active and a     *)
(* non-null next_run <= now, each once, ordered by next_run: a paused or   *)
(* completed task, or a task without next_run, is never returned, whatever *)
(* pause_task and resume_task records came before.                         *)
(***************************************************************************)
C31_DueTasks ==
  [][SchedulerPoll =>
       /\ Range(lastDue') =
            {r \in tasks : /\ r.status = "active"
                           /\ r.next_run.at # "null"
                           /\ NextRunTime(r) <= now}
       /\ \A i, j \in 1..Len(lastDue') :
            /\ i # j => lastDue'[i] # lastDue'[j]
            /\ i < j => NextRunTime(lastDue'[i]) <= NextRunTime(lastDue'[j])]_vars

\* a poll has returned a task while a paused task whose next_run has passed
\* was left out
C31_Witness ==
  /\ lastDue # <<>>
  /\ \E t \in tasks :
       /\ t.status = "paused" /\ t.next_run.at # "null" /\ NextRunTime(t) <= now
       /\ \A i \in 1..Len(lastDue) : lastDue[i].id # t.id

(***************************************************************************)
(* C32. When updateTaskAfterRun records a run: if the new next_run is null *)
(* (a once task) the task's status becomes completed; otherwise next_run   *)
(* takes the new value and the status stays what it was, so a task paused  *)
(* during its run stays paused; no other task changes; and a task without  *)
(* next_run is never returned as due.                                      *)
(***************************************************************************)
C32_AfterRun ==
  [][/\ \A r \in running :
          TaskRunDone(r) =>
            \A t \in tasks :
              IF t.id # r.id THEN t \in tasks'
              ELSE \E u \in tasks' :
                     /\ u.id = t.id
                     /\ r.schedule_type = "once" =>
                          u.next_run.at = "null" /\ u.status = "completed"
                     /\ r.schedule_type \in {"cron", "interval"} =>
                          /\ u.next_run.at = "instant" /\ u.next_run.n > now
                          /\ u.status = t.status
     /\ SchedulerPoll =>
          \A i \in 1..Len(lastDue') :
            lastDue'[i].next_run.at # "null" /\ lastDue'[i].status # "completed"]_vars

\* a once task has completed, and an interval or cron task that was paused
\* has a recorded run and a recomputed next_run
C32_Witness ==
  /\ \E t \in tasks : t.schedule_type = "once" /\ t.status = "completed"
  /\ \E t \in tasks :
       /\ t.status = "paused" /\ t.next_run.at = "instant"
       /\ \E l \in taskLogs : l.task_id = t.id

(***************************************************************************)
(* C33. Task cancellation is atomic: in no step, a failure or crash        *)
(* between the statements of deleteTask included, do the run logs of a     *)
(* task disappear while the task itself still exists.                      *)
(* As stated this does not hold: the two DELETE statements are not in a    *)
(* transaction.                                                            *)
(***************************************************************************)
C33_CancelAtomic ==
  [][\A t \in tasks' :
       (\E l \in taskLogs : l.task_id = t.id) =>
         (\E l \in taskLogs' : l.task_id = t.id)]_vars

(***************************************************************************)
(* C34: startup ordering. No call enqueues a chat before the queue's       *)
(* process callback is installed: not the recovery scan, not the ingestion *)
(* tail, and not the real-time listener (a step outside the startup calls  *)
(* that changes the queue). The recovery scan comes after the installation *)
(* of the callback and before the start of the ingestion tail.             *)
(***************************************************************************)
C34_StartupOrder ==
  [][LET o == startup'.order
     IN /\ \A i \in DOMAIN o : o[i].enq => o[i].fn
        /\ \A i, j \in DOMAIN o :
             /\ (o[i].step = "callback" /\ o[j].step \in {"recovery", "tail"})
                  => i < j
             /\ (o[i].step = "recovery" /\ o[j].step = "tail") => i < j
        /\ (startup'.loop /\ ~startup.loop) =>
             \E i \in DOMAIN o : o[i].step = "recovery"
        /\ (queue' # queue /\ startup' = startup) => startup.fn]_vars

\* the recovery scan enqueued a chat during startup
C34_Witness ==
  /\ startup.pc = "running"
  /\ \E i \in DOMAIN startup.order :
       startup.order[i].step = "recovery" /\ startup.order[i].enq
  /\ queue["p1"].scheduled

(***************************************************************************)
(* C35: every execution of the agent runner writes exactly one payload     *)
(* block: status success with the captured result and exit code 0 when     *)
(* query() threw after a result was captured (or completed), status error  *)
(* with a null result and exit code 1 otherwise.                           *)
(***************************************************************************)
C35_OnePayload ==
  runner.pc = "exited" =>
    /\ Len(runner.out) = 1
    /\ \/ /\ runner.out[1].status = "success"
          /\ runner.out[1].result # "null"
          /\ runner.exit = 0
       \/ /\ runner.out[1].status = "error"
          /\ runner.out[1].result = "null"
          /\ runner.result = "null"
          /\ runner.exit = 1

(***************************************************************************)
(* C36: no two registered chats share a workspace folder: the map from     *)
(* chat to folder is injective after any sequence of /register commands    *)
(* and IPC register_group records.                                         *)
(***************************************************************************)
C36_FolderInjective ==
  \A c, d \in DOMAIN registeredGroups :
    registeredGroups[c].folder = registeredGroups[d].folder => c = d

(***************************************************************************)
(* C37: a successful agent reply is never lost by a crash. Whenever the    *)
(* cursor of a chat is persisted past a batch whose run returned a         *)
(* non-empty user message, the reply has been handed to the messenger      *)
(* (sendMessage is in progress), also when the process dies between two    *)
(* statements of processGroupMessages.                                     *)
(***************************************************************************)
C37_ReplyNotLost ==
  [][\A p \in procs : \A out \in ReplyOutputs :
       (SendsReply(out) /\ (AgentCompletes(p, out) \/ AgentCompletesCrash(p, out)))
         => /\ saved'.last_agent_timestamp[p.chat] >= CursorAfter(p)
            /\ \E q \in procs' : /\ q.phase = "reply"
                                 /\ q.chat = p.chat
                                 /\ q.batch = p.batch]_vars

(***************************************************************************)
(* C38: no pending work is stranded in a chat that requires no trigger.    *)
(* Whenever the store holds a non-echo message of such a registered chat   *)
(* beyond its cursor, the chat is scheduled on the queue (or a worker or a *)
(* retry or a real-time handler for it is under way), or the message loop  *)
(* has yet to see the message: no further inbound message is needed to get *)
(* it processed.                                                           *)
(***************************************************************************)
C38_NoStrandedWork ==
  \A c \in DOMAIN registeredGroups :
    (registeredGroups[c].requiresTrigger = "false" /\ Pending(c) # <<>>) =>
      \/ queue[c].scheduled
      \/ queue[c].submitted > 0
      \/ queue[c].backoff
      \/ \E p \in procs : p.chat = c
      \/ \E x \in rtPending : x.msg.chat = c
      \/ /\ messengerType # "feishu"
         /\ startup.loop
         /\ GetNewMessages(store, {c}, lastTimestamp).messages # {}

(***************************************************************************)
(* C39: every task created through the IPC schedule_task action has a      *)
(* schedule_type among cron, interval and once, status active and a        *)
(* non-null next_run, whatever schedule_type string the record carries.    *)
(***************************************************************************)
C39_CreatedTaskWellFormed ==
  [][\A t \in tasks' \ tasks :
       /\ t.schedule_type \in {"cron", "interval", "once"}
       /\ t.status = "active"
       /\ t.next_run.at # "null"]_vars

(***************************************************************************)
(* C40: the workspace folder recorded by /register is filesystem-safe: it  *)
(* is non-empty and consists only of characters in [a-z0-9-], for every    *)
(* chat name and every explicit folder argument.                           *)
(***************************************************************************)
C40_FolderSafe ==
  [][\A c \in DOMAIN registeredGroups' \ DOMAIN registeredGroups :
       LET f == registeredGroups'[c].folder
       IN /\ f # <<>>
          /\ \A i \in 1..Len(f) : f[i] \in Lower \cup Digits \cup {"-"}]_vars

====
